---------------------------- MODULE Spec2Model ----------------------------
(***************************************************************************)
(* Model of the resume text-to-record pipeline of the repository:          *)
(*   src/backend/modules/resume_parser.py   (ResumeParser)                 *)
(*   src/enhanced_backend_server.py         (EnhancedResumeParser,         *)
(*                                           parse_linkedin_text)          *)
(*   src/backend_server.py                  (extract_text_from_pdf,        *)
(*                                           parse_resume_text)            *)
(*                                                                         *)
(* Text is modelled as TLA+ strings, character by character.  Python's     *)
(* str methods and the regular expressions of the source are operators     *)
(* that compute what the Python computes.  The module is ASCII: the three  *)
(* non-ASCII delimiters of the source are written with stand-ins,          *)
(*   "*" for U+2022 (bullet), "~" for U+00B7 (middle dot) and              *)
(*   "=" for U+2013 (en dash),                                             *)
(* and the input alphabet never uses "*", "~" and "=" for themselves.      *)
(***************************************************************************)
EXTENDS Integers, Sequences, FiniteSets, TLC

(***************************************************************************)
(* Characters and Python str methods                                       *)
(***************************************************************************)
Ch(s, i) == SubSeq(s, i, i)

CharsOf(s) == {Ch(s, i) : i \in 1..Len(s)}

LowerAlpha == "abcdefghijklmnopqrstuvwxyz"

UpperAlpha == "ABCDEFGHIJKLMNOPQRSTUVWXYZ"

LowerChars == CharsOf(LowerAlpha)

UpperChars == CharsOf(UpperAlpha)

DigitChars == CharsOf("0123456789")

LetterChars == LowerChars \cup UpperChars

\* \w of Python's re on the ASCII alphabet of the model
WordChars == LetterChars \cup DigitChars \cup {"_"}

\* str.strip() and \s: the whitespace characters
SpaceChars == {" ", "\t", "\n", "\r"}

BULLET == "*"

MIDDOT == "~"

ENDASH == "="

AlphaIndex(alpha, c) == CHOOSE i \in 1..Len(alpha) : Ch(alpha, i) = c

ToLowerMap == [c \in UpperChars |-> Ch(LowerAlpha, AlphaIndex(UpperAlpha, c))]

ToUpperMap == [c \in LowerChars |-> Ch(UpperAlpha, AlphaIndex(LowerAlpha, c))]

LowerChar(c) == IF c \in UpperChars THEN ToLowerMap[c] ELSE c

UpperChar(c) == IF c \in LowerChars THEN ToUpperMap[c] ELSE c

RECURSIVE LowerRange(_, _, _)
\* the characters a..b of s in lower case, by halving the range
LowerRange(s, a, b) ==
    IF a > b THEN ""
    ELSE IF a = b THEN LowerChar(Ch(s, a))
    ELSE LowerRange(s, a, (a + b) \div 2) \o LowerRange(s, (a + b) \div 2 + 1, b)

\* str.lower()
str_lower(s) == LowerRange(s, 1, Len(s))

RECURSIVE UpperRange(_, _, _)
UpperRange(s, a, b) ==
    IF a > b THEN ""
    ELSE IF a = b THEN UpperChar(Ch(s, a))
    ELSE UpperRange(s, a, (a + b) \div 2) \o UpperRange(s, (a + b) \div 2 + 1, b)

\* str.upper()
str_upper(s) == UpperRange(s, 1, Len(s))

\* the character i of s.title(): a letter is upper after a non-letter and at
\* the start, lower after a letter
TitleChar(s, i) ==
    IF Ch(s, i) \notin LetterChars THEN Ch(s, i)
    ELSE IF i > 1 /\ Ch(s, i - 1) \in LetterChars THEN LowerChar(Ch(s, i))
    ELSE UpperChar(Ch(s, i))

RECURSIVE TitleRange(_, _, _)
TitleRange(s, a, b) ==
    IF a > b THEN ""
    ELSE IF a = b THEN TitleChar(s, a)
    ELSE TitleRange(s, a, (a + b) \div 2) \o TitleRange(s, (a + b) \div 2 + 1, b)

\* str.title(): the first letter of every run of letters upper, the rest lower
str_title(s) == TitleRange(s, 1, Len(s))

RECURSIVE str_lstrip(_)
str_lstrip(s) == IF s # "" /\ Head(s) \in SpaceChars THEN str_lstrip(Tail(s)) ELSE s

RECURSIVE str_rstrip(_)
str_rstrip(s) ==
    IF s # "" /\ Ch(s, Len(s)) \in SpaceChars
    THEN str_rstrip(SubSeq(s, 1, Len(s) - 1))
    ELSE s

\* str.strip()
str_strip(s) == str_lstrip(str_rstrip(s))

\* sub in s
Contains(s, sub) ==
    \E i \in 1..(Len(s) - Len(sub) + 1) : SubSeq(s, i, i + Len(sub) - 1) = sub

\* s.startswith(prefix)
str_startswith(s, prefix) ==
    Len(prefix) <= Len(s) /\ SubSeq(s, 1, Len(prefix)) = prefix

\* any(keyword in s for keyword in keywords)
AnyIn(keywords, s) == \E k \in 1..Len(keywords) : Contains(s, keywords[k])

\* the positions of s that hold a character of seps
SepPositions(s, seps) == {i \in 1..Len(s) : Ch(s, i) \in seps}

\* s.split(sep) for a one-character sep, and re.split of a character class:
\* the pieces of s between the characters of seps
str_split(s, seps) ==
    LET P == SepPositions(s, seps)
        n == Cardinality(P)
        pos(k) == IF k = 0 THEN 0
                  ELSE IF k = n + 1 THEN Len(s) + 1
                  ELSE CHOOSE i \in P : Cardinality({j \in P : j <= i}) = k
    IN  [k \in 1..(n + 1) |-> SubSeq(s, pos(k - 1) + 1, pos(k) - 1)]

\* s.split(): the maximal runs of non-whitespace
str_words(s) == SelectSeq(str_split(s, SpaceChars), LAMBDA w : w # "")

RECURSIVE str_join(_, _)
\* sep.join(parts)
str_join(sep, parts) ==
    IF parts = <<>> THEN ""
    ELSE IF Len(parts) = 1 THEN parts[1]
         ELSE parts[1] \o sep \o str_join(sep, Tail(parts))

MapStrip(ls) == [i \in 1..Len(ls) |-> str_strip(ls[i])]

\* [line.strip() for line in text.split('\n') if line.strip()]
NonEmptyLines(text) == SelectSeq(MapStrip(str_split(text, {"\n"})), LAMBDA l : l # "")

\* lst[:n]
Take(lst, n) == SubSeq(lst, 1, IF Len(lst) < n THEN Len(lst) ELSE n)

Range(f) == {f[i] : i \in DOMAIN f}

\* TRUE, for every value v.  TLC passes the arguments of an operator on
\* unevaluated; a loop that tests Evaluated(v) has TLC evaluate v at every
\* iteration, and not as one nested expression at the end of the loop.
Evaluated(v) == v = v

(***************************************************************************)
(* Python dicts with optional keys: functions on a set of key strings.     *)
(***************************************************************************)
EmptyDict == <<>>

Put(d, k, v) == [y \in DOMAIN d \cup {k} |-> IF y = k THEN v ELSE d[y]]

Del(d, k) == [y \in DOMAIN d \ {k} |-> d[y]]

Has(d, k) == k \in DOMAIN d

(***************************************************************************)
(* Regular expressions: a backtracking matcher with Python's priorities.   *)
(* A pattern is a sequence of nodes; MatchAt gives the position after the  *)
(* first match the backtracking search finds from position p, or 0.        *)
(***************************************************************************)
Lit(c) == [t |-> "set", cs |-> {c}, neg |-> FALSE]

Set(cs) == [t |-> "set", cs |-> cs, neg |-> FALSE]

NotSet(cs) == [t |-> "set", cs |-> cs, neg |-> TRUE]

Cat(nodes) == [t |-> "cat", l |-> nodes]

Alt(nodes) == [t |-> "alt", l |-> nodes]

\* greedy repetition r{min,max}; max = -1 is unbounded
Rep(r, min, max) == [t |-> "rep", r |-> r, min |-> min, max |-> max]

Plus(r) == Rep(r, 1, -1)

Star(r) == Rep(r, 0, -1)

Opt(r) == Rep(r, 0, 1)

WB == [t |-> "wb"]

BOL == [t |-> "bol"]

EOL == [t |-> "eol"]

RECURSIVE StrNodes(_)
StrNodes(s) == IF s = "" THEN <<>> ELSE <<Lit(Head(s))>> \o StrNodes(Tail(s))

\* a literal string
Str(s) == Cat(StrNodes(s))

RECURSIVE AltStrs(_)
AltStrs(ss) == IF ss = <<>> THEN <<>> ELSE <<Str(Head(ss))>> \o AltStrs(Tail(ss))

\* (s1|s2|...)
OneOf(ss) == Alt(AltStrs(ss))

IsWordAt(s, p) == p >= 1 /\ p <= Len(s) /\ Ch(s, p) \in WordChars

InSet(n, c, ic) ==
    LET hit == c \in n.cs \/ (ic /\ (LowerChar(c) \in n.cs \/ UpperChar(c) \in n.cs))
    IN  hit # n.neg

\* the least element of a non-empty set of numbers
Least(S) == CHOOSE q \in S : \A r \in S : q <= r

\* the greatest element of a non-empty set of numbers
Greatest(S) == CHOOSE q \in S : \A r \in S : r <= q

\* a, the end of a match, unless it is 0 (no match): then b
OrElse(a, b) == IF a # 0 THEN a ELSE b

\* the characters looked at at a time by RunLen
RunBlock == 8

\* the last position of the block of at most max characters that starts at p
RunEnd(s, p, max) ==
    IF max >= 0 /\ max < RunBlock
    THEN (IF p + max - 1 > Len(s) THEN Len(s) ELSE p + max - 1)
    ELSE (IF p + RunBlock - 1 > Len(s) THEN Len(s) ELSE p + RunBlock - 1)

RECURSIVE RunLen(_, _, _, _, _)
RECURSIVE RunLenTo(_, _, _, _, _, _)
\* the number of characters from position p on that are in the set n, at
\* most max of them (max = -1 is unbounded)
RunLen(n, s, p, max, ic) ==
    RunLenTo(n, s, p, max, ic, {q \in p..RunEnd(s, p, max) : ~InSet(n, Ch(s, q), ic)})

\* bad are the positions of the block at p that are not in the set n
RunLenTo(n, s, p, max, ic, bad) ==
    IF bad # {} THEN Least(bad) - p
    ELSE IF RunEnd(s, p, max) + 1 - p < RunBlock \/ RunEnd(s, p, max) + 1 - p = max
    THEN RunEnd(s, p, max) + 1 - p
    ELSE RunBlock + RunLen(n, s, p + RunBlock, IF max < 0 THEN max ELSE max - RunBlock, ic)

RECURSIVE MatchAt(_, _, _, _)
RECURSIVE MatchAlt(_, _, _, _, _)
RECURSIVE MatchRun(_, _, _, _, _)
RECURSIVE MatchRep(_, _, _, _, _)
\* the position after the match of the nodes from position p, or 0
MatchAt(nodes, s, p, ic) ==
    IF nodes = <<>> THEN p
    ELSE IF Head(nodes).t = "set"
    THEN IF p <= Len(s) /\ InSet(Head(nodes), Ch(s, p), ic)
         THEN MatchAt(Tail(nodes), s, p + 1, ic) ELSE 0
    ELSE IF Head(nodes).t = "cat" THEN MatchAt(Head(nodes).l \o Tail(nodes), s, p, ic)
    ELSE IF Head(nodes).t = "alt" THEN MatchAlt(Head(nodes).l, Tail(nodes), s, p, ic)
    ELSE IF Head(nodes).t = "rep" /\ Head(nodes).r.t = "set"
    THEN MatchRun(Tail(nodes), s, p, ic,
                  {j \in Head(nodes).min..RunLen(Head(nodes).r, s, p, Head(nodes).max, ic) :
                      MatchAt(Tail(nodes), s, p + j, ic) # 0})
    ELSE IF Head(nodes).t = "rep" THEN MatchRep(Head(nodes), Tail(nodes), s, p, ic)
    ELSE IF Head(nodes).t = "wb"
    THEN IF IsWordAt(s, p - 1) # IsWordAt(s, p) THEN MatchAt(Tail(nodes), s, p, ic) ELSE 0
    ELSE IF Head(nodes).t = "bol"
    THEN IF p = 1 THEN MatchAt(Tail(nodes), s, p, ic) ELSE 0
    ELSE \* "eol"
         IF p = Len(s) + 1 \/ (p = Len(s) /\ Ch(s, p) = "\n")
         THEN MatchAt(Tail(nodes), s, p, ic) ELSE 0

\* greedy repetition of a character class: fits are the lengths of the run
\* after which the rest of the pattern matches; the longest is taken
MatchRun(rest, s, p, ic, fits) ==
    IF fits = {} THEN 0 ELSE MatchAt(rest, s, p + Greatest(fits), ic)

\* greedy repetition n of a group: once more and the rest, or else the rest
MatchRep(n, rest, s, p, ic) ==
    OrElse(IF n.max = 0 THEN 0
           ELSE MatchAt(<<n.r, Rep(n.r, IF n.min > 0 THEN n.min - 1 ELSE 0,
                                   IF n.max > 0 THEN n.max - 1 ELSE n.max)>> \o rest,
                        s, p, ic),
           IF n.min = 0 THEN MatchAt(rest, s, p, ic) ELSE 0)

\* the alternatives in order: the first that matches with the rest after it
MatchAlt(alts, rest, s, p, ic) ==
    IF alts = <<>> THEN 0
    ELSE OrElse(MatchAt(<<Head(alts)>> \o rest, s, p, ic),
                MatchAlt(Tail(alts), rest, s, p, ic))

\* the start positions tried at a time by SearchFrom
SearchBlock == 16

\* the last start position of the block of positions that starts at p
BlockEnd(s, p) == IF p + SearchBlock - 1 > Len(s) + 1 THEN Len(s) + 1 ELSE p + SearchBlock - 1

NoMatch == <<0, 0>>

RECURSIVE SearchFrom(_, _, _, _)
RECURSIVE SearchBlockHits(_, _, _, _, _)
\* re.search from position p: <<start, end>> of the leftmost match (end is
\* the position after it), or NoMatch
SearchFrom(re, s, p, ic) ==
    IF p > Len(s) + 1 THEN NoMatch
    ELSE SearchBlockHits(re, s, p, ic,
                         {q \in p..BlockEnd(s, p) : MatchAt(<<re>>, s, q, ic) # 0})

\* hits are the start positions of the block at p at which re matches
SearchBlockHits(re, s, p, ic, hits) ==
    IF hits # {} THEN <<Least(hits), MatchAt(<<re>>, s, Least(hits), ic)>>
    ELSE SearchFrom(re, s, BlockEnd(s, p) + 1, ic)

\* re.search(re, s)
re_search(re, s, ic) == SearchFrom(re, s, 1, ic)

\* bool(re.search(re, s))
re_found(re, s, ic) == re_search(re, s, ic) # NoMatch

\* match.group()
re_group(s, m) == SubSeq(s, m[1], m[2] - 1)

\* bool(re.match(re, s)): a match at the start of s
re_match(re, s, ic) == MatchAt(<<re>>, s, 1, ic) # 0

RECURSIVE FindAllFrom(_, _, _, _)
RECURSIVE FindAllAfter(_, _, _, _)
\* re.findall of a pattern without groups: the non-overlapping matches
FindAllFrom(re, s, p, ic) == FindAllAfter(re, s, ic, SearchFrom(re, s, p, ic))

\* the match m and the matches after it
FindAllAfter(re, s, ic, m) ==
    IF m = NoMatch THEN <<>>
    ELSE <<re_group(s, m)>>
         \o FindAllFrom(re, s, IF m[2] > m[1] THEN m[2] ELSE m[2] + 1, ic)

re_findall(re, s, ic) == FindAllFrom(re, s, 1, ic)


(***************************************************************************)
(* Patterns shared by the parser variants                                  *)
(***************************************************************************)
AlnumChars == LetterChars \cup DigitChars

Digit == Set(DigitChars)

Space == Set(SpaceChars)

\* [-.\s]?
PhoneSep == Opt(Set({"-", "."} \cup SpaceChars))

\* [-.]?
DashDot == Opt(Set({"-", "."}))

\* [A-Za-z0-9._%+-]+@[A-Za-z0-9.-]+\.[A-Z|a-z]{2,}
EmailBody ==
    <<Plus(Set(AlnumChars \cup CharsOf("._%+-"))), Lit("@"),
      Plus(Set(AlnumChars \cup CharsOf(".-"))), Lit("."),
      Rep(Set(LetterChars \cup {"|"}), 2, -1)>>

\* r'\b[A-Za-z0-9._%+-]+@[A-Za-z0-9.-]+\.[A-Z|a-z]{2,}\b'
email_pattern == Cat(<<WB>> \o EmailBody \o <<WB>>)

\* r'^[A-Za-z0-9._%+-]+@[A-Za-z0-9.-]+\.[A-Z|a-z]{2,}$'
strict_email_pattern == Cat(<<BOL>> \o EmailBody \o <<EOL>>)

\* (20\d{2}|19\d{2})
Year == Alt(<<Cat(<<Str("20"), Rep(Digit, 2, 2)>>), Cat(<<Str("19"), Rep(Digit, 2, 2)>>)>>)

\* r'\b(20\d{2}|19\d{2})\b'
year_pattern == Cat(<<WB, Year, WB>>)

\* r'linkedin\.com/in/[\w\-]+'
linkedin_pattern == Cat(<<Str("linkedin.com/in/"), Plus(Set(WordChars \cup {"-"}))>>)

\* r'github\.com/[\w-]+'
github_pattern == Cat(<<Str("github.com/"), Plus(Set(WordChars \cup {"-"}))>>)

\* the digits of s, in order
DigitsOf(s) == SelectSeq([i \in 1..Len(s) |-> Ch(s, i)], LAMBDA c : c \in DigitChars)

\* re.sub(r'[^\d\+\-\(\)\s]', '', phone)
PhoneClean(s) ==
    str_join("", SelectSeq([i \in 1..Len(s) |-> Ch(s, i)],
                           LAMBDA c : c \in DigitChars \cup {"+", "-", "(", ")"} \cup SpaceChars))

(***************************************************************************)
(* A Python set of strings: the elements in insertion order.  list(set)    *)
(* iterates in the order of the string hashes, which CPython seeds per     *)
(* process (PYTHONHASHSEED): the order is a function of the seed, modelled *)
(* as a rotation of the insertion order by the seed.                       *)
(***************************************************************************)
SetAdd(set, e) == IF e \in Range(set) THEN set ELSE Append(set, e)

RECURSIVE SetAddAll(_, _)
SetAddAll(set, es) ==
    IF Evaluated(set) /\ es = <<>> THEN set ELSE SetAddAll(SetAdd(set, Head(es)), Tail(es))

\* list(set) in a process whose hash seed is seed
SetToList(set, seed) ==
    IF set = <<>> THEN <<>>
    ELSE LET k == seed % Len(set)
         IN  SubSeq(set, k + 1, Len(set)) \o SubSeq(set, 1, k)

(***************************************************************************)
(* ResumeParser (src/backend/modules/resume_parser.py)                     *)
(***************************************************************************)
\* __init__: self.parsed_data
RP_InitialData ==
    [personal |-> EmptyDict, summary |-> "", experience |-> <<>>, education |-> <<>>,
     skills |-> <<>>, technical_skills |-> <<>>, projects |-> <<>>, languages |-> <<>>,
     certifications |-> <<>>]

\* r'\b(?:\+?1[-.\s]?)?\(?([0-9]{3})\)?[-.\s]?([0-9]{3})[-.\s]?([0-9]{4})\b'
RP_phone_pattern1 ==
    Cat(<<WB, Opt(Cat(<<Opt(Lit("+")), Lit("1"), PhoneSep>>)), Opt(Lit("(")),
          Rep(Digit, 3, 3), Opt(Lit(")")), PhoneSep, Rep(Digit, 3, 3), PhoneSep,
          Rep(Digit, 4, 4), WB>>)

\* r'\b\d{3}[-.]?\d{3}[-.]?\d{4}\b'
RP_phone_pattern2 ==
    Cat(<<WB, Rep(Digit, 3, 3), DashDot, Rep(Digit, 3, 3), DashDot, Rep(Digit, 4, 4), WB>>)

\* r'\b\d{3}[-.]?\d{4}[-.]?\d{4}\b'
RP_phone_pattern3 ==
    Cat(<<WB, Rep(Digit, 3, 3), DashDot, Rep(Digit, 4, 4), DashDot, Rep(Digit, 4, 4), WB>>)

\* r'\d{3}[-.]?\d{3}[-.]?\d{4}'
RP_name_phone_pattern ==
    Cat(<<Rep(Digit, 3, 3), DashDot, Rep(Digit, 3, 3), DashDot, Rep(Digit, 4, 4)>>)

\* f"({phones[0][0]}) {phones[0][1]}-{phones[0][2]}": the three groups are the
\* last ten digits of the match
RP_FormatPhone(m) ==
    LET d == DigitsOf(m)
        n == Len(d)
    IN  "(" \o str_join("", SubSeq(d, n - 9, n - 7)) \o ") "
            \o str_join("", SubSeq(d, n - 6, n - 4)) \o "-"
            \o str_join("", SubSeq(d, n - 3, n))

RP_Phone(personal, text) ==
    LET m1 == re_search(RP_phone_pattern1, text, FALSE)
        m2 == re_search(RP_phone_pattern2, text, FALSE)
        m3 == re_search(RP_phone_pattern3, text, FALSE)
    IN  IF m1 # NoMatch THEN Put(personal, "phone", RP_FormatPhone(re_group(text, m1)))
        ELSE IF m2 # NoMatch THEN Put(personal, "phone", re_group(text, m2))
        ELSE IF m3 # NoMatch THEN Put(personal, "phone", re_group(text, m3))
        ELSE personal

RP_Email(personal, text) ==
    LET m == re_search(email_pattern, text, TRUE)
    IN  IF m # NoMatch THEN Put(personal, "email", re_group(text, m)) ELSE personal

\* the test of one candidate line of the name loop
RP_IsNameLine(line) ==
    /\ ~re_found(email_pattern, line, TRUE)
    /\ ~re_found(RP_name_phone_pattern, line, FALSE)
    /\ Len(str_words(line)) >= 2
    /\ Len(line) < 50

\* the name fields of a line: full_name, first_name, last_name
RP_PutName(personal, line) ==
    LET name_parts == str_words(line)
        p1 == Put(personal, "full_name", line)
    IN  IF Len(name_parts) >= 2
        THEN Put(Put(p1, "first_name", name_parts[1]), "last_name", name_parts[Len(name_parts)])
        ELSE p1

RP_NameCandidates == 5

RP_Name(personal, lines) ==
    LET first5 == Take(lines, RP_NameCandidates)
        hits == {i \in 1..Len(first5) : RP_IsNameLine(first5[i])}
    IN  IF hits = {} THEN personal
        ELSE RP_PutName(personal, first5[CHOOSE i \in hits : \A j \in hits : i <= j])

RP_address_keywords ==
    <<"street", "ave", "avenue", "road", "rd", "drive", "dr", "lane", "ln", "blvd", "boulevard">>

\* r'\b[A-Z][a-z]+,\s*[A-Z]{2}\s+\d{5}'
RP_city_state_pattern ==
    Cat(<<WB, Set(UpperChars), Plus(Set(LowerChars)), Lit(","), Star(Space),
          Rep(Set(UpperChars), 2, 2), Plus(Space), Rep(Digit, 5, 5)>>)

RP_IsAddressLine(line) ==
    \/ AnyIn(RP_address_keywords, str_lower(line))
    \/ re_found(RP_city_state_pattern, line, FALSE)

RP_Address(personal, lines) ==
    LET hits == {i \in 1..Len(lines) : RP_IsAddressLine(lines[i])}
    IN  IF hits = {} THEN personal
        ELSE Put(personal, "address", lines[CHOOSE i \in hits : \A j \in hits : i <= j])

RP_Linkedin(personal, text) ==
    LET m == re_search(linkedin_pattern, text, TRUE)
    IN  IF m # NoMatch THEN Put(personal, "linkedin", "https://" \o re_group(text, m))
        ELSE personal

\* r'https?://[\w\.\-]+\.[a-z]{2,}'
RP_website_pattern ==
    Cat(<<Str("http"), Opt(Lit("s")), Str("://"), Plus(Set(WordChars \cup {".", "-"})),
          Lit("."), Rep(Set(LowerChars), 2, -1)>>)

RP_Website(personal, text) ==
    LET urls == SelectSeq(re_findall(RP_website_pattern, text, TRUE),
                          LAMBDA url : ~Contains(str_lower(url), "linkedin"))
    IN  IF urls # <<>> THEN Put(personal, "website", urls[1]) ELSE personal

\* parse_personal_information: the value stored in parsed_data['personal']
RP_personal(text) ==
    LET lines == NonEmptyLines(text)
    IN  RP_Website(RP_Linkedin(RP_Address(RP_Name(RP_Phone(RP_Email(EmptyDict, text), text),
                                                  lines), lines), text), text)

RP_SummaryLineMin == 20

RP_SummaryLines == 3

RECURSIVE RP_SummaryLoop(_, _, _, _)
\* the loop of parse_summary: summary_lines when the loop ends
RP_SummaryLoop(lines, i, summary_section, summary_lines) ==
    IF Evaluated(<<summary_section, summary_lines>>) /\ i > Len(lines) THEN summary_lines
    ELSE LET line == lines[i]
             line_lower == str_lower(line)
         IN  IF AnyIn(<<"summary", "objective", "profile", "about">>, line_lower)
             THEN RP_SummaryLoop(lines, i + 1, TRUE, summary_lines)
             ELSE IF summary_section
                     /\ AnyIn(<<"experience", "education", "skills", "employment">>, line_lower)
             THEN summary_lines
             ELSE IF summary_section /\ Len(line) > RP_SummaryLineMin
             THEN RP_SummaryLoop(lines, i + 1, summary_section, Append(summary_lines, line))
             ELSE RP_SummaryLoop(lines, i + 1, summary_section, summary_lines)

\* parse_summary: the value stored in parsed_data['summary']
RP_summary(text) ==
    str_join(" ", Take(RP_SummaryLoop(NonEmptyLines(text), 1, FALSE, <<>>), RP_SummaryLines))

\* r'\b(manager|director|engineer|developer|analyst|coordinator|assistant|specialist)\b'
RP_job_title_pattern ==
    Cat(<<WB, OneOf(<<"manager", "director", "engineer", "developer", "analyst",
                      "coordinator", "assistant", "specialist">>), WB>>)

\* r'\b(20\d{2}|19\d{2})\s*[-(en dash)]\s*(20\d{2}|19\d{2}|present)\b', re.IGNORECASE
RP_date_range_pattern ==
    Cat(<<WB, Year, Star(Space), Set({"-", ENDASH}), Star(Space),
          Alt(<<Cat(<<Str("20"), Rep(Digit, 2, 2)>>), Cat(<<Str("19"), Rep(Digit, 2, 2)>>),
                Str("present")>>), WB>>)

RP_IsJobTitleLine(line) == re_found(RP_job_title_pattern, str_lower(line), FALSE)

\* the entry a job-title line starts
RP_NewJob(line) ==
    LET date_match == re_search(RP_date_range_pattern, line, TRUE)
    IN  [title |-> str_strip(line), company |-> "",
         dates |-> IF date_match # NoMatch THEN re_group(line, date_match) ELSE "",
         description |-> ""]

\* if current_job: experience.append(current_job)
Flush(lst, current) == IF current # EmptyDict THEN Append(lst, current) ELSE lst

RECURSIVE RP_ExperienceLoop(_, _, _, _, _)
\* the loop of parse_experience and the append after it: the list experience
RP_ExperienceLoop(lines, i, experience_section, current_job, experience) ==
    IF Evaluated(<<experience_section, current_job, experience>>) /\ i > Len(lines)
    THEN Flush(experience, current_job)
    ELSE LET line == lines[i]
             line_lower == str_lower(line)
         IN  IF AnyIn(<<"experience", "employment", "work history">>, line_lower)
             THEN RP_ExperienceLoop(lines, i + 1, TRUE, current_job, experience)
             ELSE IF experience_section /\ AnyIn(<<"education", "skills", "projects">>, line_lower)
             THEN \* appended before the break, and again after the loop
                  Flush(Flush(experience, current_job), current_job)
             ELSE IF ~experience_section
             THEN RP_ExperienceLoop(lines, i + 1, experience_section, current_job, experience)
             ELSE IF RP_IsJobTitleLine(line)
             THEN RP_ExperienceLoop(lines, i + 1, experience_section, RP_NewJob(line),
                                    Flush(experience, current_job))
             ELSE IF current_job # EmptyDict /\ current_job.company = ""
                     /\ AnyIn(<<"inc", "corp", "llc", "company", "ltd">>, line_lower)
             THEN RP_ExperienceLoop(lines, i + 1, experience_section,
                                    [current_job EXCEPT !.company = str_strip(line)], experience)
             ELSE RP_ExperienceLoop(lines, i + 1, experience_section, current_job, experience)

\* the list experience before the cut experience[:5]
RP_AllExperience(text) == RP_ExperienceLoop(NonEmptyLines(text), 1, FALSE, EmptyDict, <<>>)

RP_MaxExperience == 5

\* parse_experience without the slice [:5]
RP_experience_uncapped(text) == RP_AllExperience(text)

\* parse_experience: the value stored in parsed_data['experience']
RP_experience(text) == Take(RP_AllExperience(text), RP_MaxExperience)

RP_work_indicators == <<"instructor", "teacher", "manager", "director", "engineer", "developer">>

degree_keywords == <<"bachelor", "master", "phd", "mba", "bs", "ba", "ms", "ma", "degree">>

\* the entry of an institution line (the same in both parser classes)
NewEducation(line) ==
    LET year_match == re_search(year_pattern, line, FALSE)
    IN  [school |-> str_strip(line),
         degree |-> IF AnyIn(degree_keywords, str_lower(line)) THEN str_strip(line) ELSE "",
         year |-> IF year_match # NoMatch THEN re_group(line, year_match) ELSE ""]

RECURSIVE EducationLoop(_, _, _, _, _)
\* the loop of parse_education (the same in both parser classes, but for the
\* list work_indicators): the list education
EducationLoop(lines, i, education_section, education, work_indicators) ==
    IF Evaluated(<<education_section, education>>) /\ i > Len(lines) THEN education
    ELSE LET line == lines[i]
             line_lower == str_lower(line)
         IN  IF AnyIn(<<"education", "academic">>, line_lower)
             THEN EducationLoop(lines, i + 1, TRUE, education, work_indicators)
             ELSE IF education_section
                     /\ AnyIn(<<"experience", "skills", "projects", "work">>, line_lower)
             THEN education
             ELSE IF (education_section \/ AnyIn(<<"university", "college">>, line_lower))
                     /\ ~AnyIn(work_indicators, line_lower)
                     /\ AnyIn(<<"university", "college", "institute">>, line_lower)
             THEN EducationLoop(lines, i + 1, education_section,
                                Append(education, NewEducation(line)), work_indicators)
             ELSE EducationLoop(lines, i + 1, education_section, education, work_indicators)

\* the list education before the cut education[:3]
RP_AllEducation(text) == EducationLoop(NonEmptyLines(text), 1, FALSE, <<>>, RP_work_indicators)

MaxEducation == 3

\* parse_education: the value stored in parsed_data['education']
RP_education(text) == Take(RP_AllEducation(text), MaxEducation)

RP_tech_skills_list ==
    <<"python", "javascript", "java", "c++", "c#", "php", "ruby", "go", "rust", "swift",
      "react", "vue", "angular", "node", "express", "django", "flask", "rails",
      "html", "css", "sass", "less", "bootstrap", "tailwind",
      "sql", "postgresql", "mysql", "mongodb", "redis", "elasticsearch",
      "aws", "azure", "gcp", "docker", "kubernetes", "jenkins", "git", "github",
      "tensorflow", "pytorch", "pandas", "numpy", "scikit-learn", "matplotlib",
      "linux", "windows", "macos", "unix", "bash", "powershell">>

RP_soft_skills_list ==
    <<"leadership", "communication", "teamwork", "problem solving", "analytical",
      "creative", "adaptable", "organized", "detail-oriented", "time management",
      "project management", "customer service", "presentation", "negotiation">>

RECURSIVE MapTitle(_)
MapTitle(ss) == IF ss = <<>> THEN <<>> ELSE <<str_title(Head(ss))>> \o MapTitle(Tail(ss))

\* [skill.title() for skill in vocabulary if skill in text_lower]
VocabularyHits(vocabulary, text_lower) ==
    MapTitle(SelectSeq(vocabulary, LAMBDA skill : Contains(text_lower, skill)))

\* re.split(r'[,(bullet)(middle dot)\-\n|/]', line)
RP_skill_delimiters == {",", BULLET, MIDDOT, "-", "\n", "|", "/"}

RP_SkillWordMin == 2

RP_SkillWordMax == 25

\* the words added if the test were len(word) > 2 and len(word) <= 25
RP_SkillWordsUpTo25(line) ==
    SelectSeq(MapStrip(str_split(line, RP_skill_delimiters)),
              LAMBDA word : Len(word) > RP_SkillWordMin /\ Len(word) <= RP_SkillWordMax)

\* the words of a skills-section line that are added: len(word) > 2 and len(word) < 25
RP_SkillWords(line) ==
    SelectSeq(MapStrip(str_split(line, RP_skill_delimiters)),
              LAMBDA word : Len(word) > RP_SkillWordMin /\ Len(word) < RP_SkillWordMax)

RECURSIVE RP_SkillsLoop(_, _, _, _, _)
\* the loop of parse_skills over the lines: the two sets when it ends
RP_SkillsLoop(lines, i, skills_section, technical_section, sets) ==
    IF Evaluated(<<skills_section, technical_section, sets>>) /\ i > Len(lines) THEN sets
    ELSE LET line == lines[i]
             line_lower == str_lower(line)
         IN  IF AnyIn(<<"skills", "technologies", "tools", "technical skills">>, line_lower)
             THEN RP_SkillsLoop(lines, i + 1, TRUE,
                                technical_section \/ Contains(line_lower, "technical"), sets)
             ELSE IF ~skills_section
             THEN RP_SkillsLoop(lines, i + 1, skills_section, technical_section, sets)
             ELSE IF AnyIn(<<"experience", "education", "projects", "languages">>, line_lower)
             THEN RP_SkillsLoop(lines, i + 1, FALSE, FALSE, sets)
             ELSE LET added == RP_SkillWords(line)
                      tech == SelectSeq(added, LAMBDA word :
                                  technical_section
                                  \/ AnyIn(RP_tech_skills_list, str_lower(word)))
                  IN  RP_SkillsLoop(lines, i + 1, skills_section, technical_section,
                                    [all_skills |-> SetAddAll(sets.all_skills, added),
                                     technical_skills |-> SetAddAll(sets.technical_skills, tech)])

\* the sets all_skills and technical_skills at the end of parse_skills
RP_SkillSets(text) ==
    LET text_lower == str_lower(text)
        tech == VocabularyHits(RP_tech_skills_list, text_lower)
        soft == VocabularyHits(RP_soft_skills_list, text_lower)
    IN  RP_SkillsLoop(NonEmptyLines(text), 1, FALSE, FALSE,
                      [all_skills |-> SetAddAll(SetAddAll(<<>>, tech), soft),
                       technical_skills |-> SetAddAll(<<>>, tech)])

RP_MaxSkills == 25

RP_MaxTechnicalSkills == 15

\* parse_skills: list(all_skills)[:25]
RP_skills(text, seed) == Take(SetToList(RP_SkillSets(text).all_skills, seed), RP_MaxSkills)

\* parse_skills: list(technical_skills)[:15]
RP_technical_skills(text, seed) ==
    Take(SetToList(RP_SkillSets(text).technical_skills, seed), RP_MaxTechnicalSkills)

IsBulletLine(line) == str_startswith(line, "-") \/ str_startswith(line, BULLET)

RECURSIVE RP_ProjectsLoop(_, _, _, _, _)
\* the loop of parse_projects and the append after it: the list projects
RP_ProjectsLoop(lines, i, projects_section, current_project, projects) ==
    IF Evaluated(<<projects_section, current_project, projects>>) /\ i > Len(lines)
    THEN Flush(projects, current_project)
    ELSE LET line == lines[i]
             line_lower == str_lower(line)
         IN  IF AnyIn(<<"projects", "portfolio">>, line_lower)
             THEN RP_ProjectsLoop(lines, i + 1, TRUE, current_project, projects)
             ELSE IF projects_section /\ AnyIn(<<"experience", "education", "skills">>, line_lower)
             THEN \* appended before the break, and again after the loop
                  Flush(Flush(projects, current_project), current_project)
             ELSE IF ~projects_section
             THEN RP_ProjectsLoop(lines, i + 1, projects_section, current_project, projects)
             ELSE IF ~IsBulletLine(line)
             THEN RP_ProjectsLoop(lines, i + 1, projects_section,
                                  [name |-> str_strip(line), description |-> "",
                                   technologies |-> <<>>],
                                  Flush(projects, current_project))
             ELSE IF current_project # EmptyDict /\ current_project.description = ""
             THEN RP_ProjectsLoop(lines, i + 1, projects_section,
                                  [current_project EXCEPT !.description = str_strip(line)],
                                  projects)
             ELSE RP_ProjectsLoop(lines, i + 1, projects_section, current_project, projects)

RP_AllProjects(text) == RP_ProjectsLoop(NonEmptyLines(text), 1, FALSE, EmptyDict, <<>>)

RP_MaxProjects == 5

\* parse_projects: the value stored in parsed_data['projects']
RP_projects(text) == Take(RP_AllProjects(text), RP_MaxProjects)

RP_language_list ==
    <<"english", "spanish", "french", "german", "italian", "portuguese", "chinese",
      "japanese", "korean", "arabic", "russian", "hindi", "mandarin", "cantonese">>

RP_Proficiency(line_lower) ==
    IF AnyIn(<<"native", "fluent">>, line_lower) THEN "fluent"
    ELSE IF AnyIn(<<"basic", "beginner">>, line_lower) THEN "basic"
    ELSE "conversational"

RECURSIVE RP_LineLanguages(_, _)
\* the entries one line of the languages section adds
RP_LineLanguages(langs, line_lower) ==
    IF langs = <<>> THEN <<>>
    ELSE (IF Contains(line_lower, Head(langs))
          THEN <<[language |-> str_title(Head(langs)),
                  proficiency |-> RP_Proficiency(line_lower)]>>
          ELSE <<>>) \o RP_LineLanguages(Tail(langs), line_lower)

RECURSIVE RP_LanguagesLoop(_, _, _, _)
RP_LanguagesLoop(lines, i, languages_section, languages) ==
    IF Evaluated(<<languages_section, languages>>) /\ i > Len(lines) THEN languages
    ELSE LET line_lower == str_lower(lines[i])
         IN  IF AnyIn(<<"languages", "language">>, line_lower)
             THEN RP_LanguagesLoop(lines, i + 1, TRUE, languages)
             ELSE IF ~languages_section
             THEN RP_LanguagesLoop(lines, i + 1, languages_section, languages)
             ELSE IF AnyIn(<<"experience", "education", "skills", "projects">>, line_lower)
             THEN languages
             ELSE RP_LanguagesLoop(lines, i + 1, languages_section,
                                   languages \o RP_LineLanguages(RP_language_list, line_lower))

\* parse_languages: the value stored in parsed_data['languages']
RP_languages(text) == RP_LanguagesLoop(NonEmptyLines(text), 1, FALSE, <<>>)

RP_CertLineMin == 5

RECURSIVE RP_CertificationsLoop(_, _, _, _)
RP_CertificationsLoop(lines, i, certifications_section, certifications) ==
    IF Evaluated(<<certifications_section, certifications>>) /\ i > Len(lines) THEN certifications
    ELSE LET line == lines[i]
             line_lower == str_lower(line)
             year_match == re_search(year_pattern, line, FALSE)
         IN  IF AnyIn(<<"certifications", "certificates", "licenses">>, line_lower)
             THEN RP_CertificationsLoop(lines, i + 1, TRUE, certifications)
             ELSE IF certifications_section
                     /\ AnyIn(<<"experience", "education", "skills", "projects">>, line_lower)
             THEN certifications
             ELSE IF (certifications_section
                      \/ AnyIn(<<"certified", "certificate", "license">>, line_lower))
                     /\ Len(line) > RP_CertLineMin
             THEN RP_CertificationsLoop(lines, i + 1, certifications_section,
                      Append(certifications,
                             [name |-> str_strip(line), issuer |-> "",
                              year |-> IF year_match # NoMatch
                                       THEN re_group(line, year_match) ELSE ""]))
             ELSE RP_CertificationsLoop(lines, i + 1, certifications_section, certifications)

RP_AllCertifications(text) == RP_CertificationsLoop(NonEmptyLines(text), 1, FALSE, <<>>)

RP_MaxCertifications == 5

\* parse_certifications: the value stored in parsed_data['certifications']
RP_certifications(text) == Take(RP_AllCertifications(text), RP_MaxCertifications)

\* clean_and_validate_data on personal: the email and the phone
CleanPersonal(personal) ==
    LET p1 == IF Has(personal, "email")
                 /\ ~re_match(strict_email_pattern, personal["email"], FALSE)
              THEN Del(personal, "email") ELSE personal
    IN  IF Has(p1, "phone")
        THEN Put(p1, "phone", str_strip(PhoneClean(p1["phone"])))
        ELSE p1

\* a cleaner that looks at the title alone
KeepExperienceByTitle(exp) == Has(exp, "title") /\ exp["title"] # ""

\* exp.get('title') or exp.get('company')
KeepExperience(exp) ==
    (Has(exp, "title") /\ exp["title"] # "") \/ (Has(exp, "company") /\ exp["company"] # "")

CleanExperience(experience) == SelectSeq(experience, KeepExperience)

\* clean_and_validate_data (the same in both parser classes)
clean_and_validate_data(data) ==
    LET d1 == IF Has(data, "personal")
              THEN Put(data, "personal", CleanPersonal(data["personal"])) ELSE data
    IN  IF Has(d1, "experience")
        THEN Put(d1, "experience", CleanExperience(d1["experience"]))
        ELSE d1

(***************************************************************************)
(* EnhancedResumeParser (src/enhanced_backend_server.py)                   *)
(***************************************************************************)
\* r'\(?\d{3}\)?[-.\s]?\d{3}[-.\s]?\d{4}'
us_phone_pattern ==
    Cat(<<Opt(Lit("(")), Rep(Digit, 3, 3), Opt(Lit(")")), PhoneSep, Rep(Digit, 3, 3),
          PhoneSep, Rep(Digit, 4, 4)>>)

\* r'\+?\d{1,3}[-.\s]?\(?\d{2,4}\)?[-.\s]?\d{2,4}[-.\s]?\d{2,4}'
ERP_intl_phone_pattern ==
    Cat(<<Opt(Lit("+")), Rep(Digit, 1, 3), PhoneSep, Opt(Lit("(")), Rep(Digit, 2, 4),
          Opt(Lit(")")), PhoneSep, Rep(Digit, 2, 4), PhoneSep, Rep(Digit, 2, 4)>>)

ERP_Email(personal, text) ==
    LET m == re_search(email_pattern, text, FALSE)
    IN  IF m # NoMatch THEN Put(personal, "email", re_group(text, m)) ELSE personal

ERP_Phone(personal, text) ==
    LET m1 == re_search(us_phone_pattern, text, FALSE)
        m2 == re_search(ERP_intl_phone_pattern, text, FALSE)
    IN  IF m1 # NoMatch THEN Put(personal, "phone", str_strip(re_group(text, m1)))
        ELSE IF m2 # NoMatch THEN Put(personal, "phone", str_strip(re_group(text, m2)))
        ELSE personal

\* r'^[A-Za-z\s]{2,50}$'
ERP_name_pattern == Cat(<<BOL, Rep(Set(LetterChars \cup SpaceChars), 2, 50), EOL>>)

\* r'@|\.com|phone|email', re.IGNORECASE
ERP_not_name_pattern == Alt(<<Lit("@"), Str(".com"), Str("phone"), Str("email")>>)

ERP_IsNameLine(line) ==
    re_match(ERP_name_pattern, line, FALSE) /\ ~re_found(ERP_not_name_pattern, line, TRUE)

ERP_PutName(personal, line) ==
    LET name_parts == str_words(str_strip(line))
        p1 == Put(personal, "full_name", str_strip(line))
        p2 == IF name_parts # <<>> THEN Put(p1, "first_name", name_parts[1]) ELSE p1
    IN  IF Len(name_parts) > 1 THEN Put(p2, "last_name", name_parts[Len(name_parts)]) ELSE p2

ERP_NameCandidates == 5

ERP_Name(personal, lines) ==
    LET first5 == Take(lines, ERP_NameCandidates)
        hits == {i \in 1..Len(first5) : ERP_IsNameLine(first5[i])}
    IN  IF hits = {} THEN personal
        ELSE ERP_PutName(personal, first5[CHOOSE i \in hits : \A j \in hits : i <= j])

ERP_Linkedin(personal, text) ==
    LET m == re_search(linkedin_pattern, text, TRUE)
    IN  IF m # NoMatch THEN Put(personal, "linkedin", "https://" \o re_group(text, m))
        ELSE personal

ERP_Github(personal, text) ==
    LET m == re_search(github_pattern, text, TRUE)
    IN  IF m # NoMatch THEN Put(personal, "github", "https://" \o re_group(text, m))
        ELSE personal

\* r'\b\w+,\s*[A-Z]{2}\s*\d{5}'
ERP_address_pattern1 ==
    Cat(<<WB, Plus(Set(WordChars)), Lit(","), Star(Space), Rep(Set(UpperChars), 2, 2),
          Star(Space), Rep(Digit, 5, 5)>>)

\* r'\b\w+\s+\w+,\s*[A-Z]{2}'
ERP_address_pattern2 ==
    Cat(<<WB, Plus(Set(WordChars)), Plus(Space), Plus(Set(WordChars)), Lit(","),
          Star(Space), Rep(Set(UpperChars), 2, 2)>>)

\* the first line that holds the matched text, if any
ERP_AddressLine(personal, lines, matched) ==
    LET hits == {i \in 1..Len(lines) : Contains(lines[i], matched)}
    IN  IF hits = {} THEN personal
        ELSE Put(personal, "address",
                 str_strip(lines[CHOOSE i \in hits : \A j \in hits : i <= j]))

ERP_Address(personal, lines, text) ==
    LET m1 == re_search(ERP_address_pattern1, text, FALSE)
        m2 == re_search(ERP_address_pattern2, text, FALSE)
    IN  IF m1 # NoMatch THEN ERP_AddressLine(personal, lines, re_group(text, m1))
        ELSE IF m2 # NoMatch THEN ERP_AddressLine(personal, lines, re_group(text, m2))
        ELSE personal

\* parse_personal_information: the value stored in parsed_data['personal']
ERP_personal(text) ==
    LET lines == NonEmptyLines(text)
    IN  ERP_Address(ERP_Github(ERP_Linkedin(ERP_Name(ERP_Phone(ERP_Email(EmptyDict, text),
                                                                 text), lines), text), text),
                    lines, text)

month_names == <<"Jan", "Feb", "Mar", "Apr", "May", "Jun", "Jul", "Aug", "Sep", "Oct", "Nov", "Dec">>

\* r'\b(Jan|Feb|Mar|Apr|May|Jun|Jul|Aug|Sep|Oct|Nov|Dec)\s+(20\d{2}|19\d{2})\b'
ERP_month_year_pattern == Cat(<<WB, OneOf(month_names), Plus(Space), Year, WB>>)

\* r'\b(20\d{2}|19\d{2})\s*-\s*(20\d{2}|19\d{2})\b'
ERP_year_range_pattern == Cat(<<WB, Year, Star(Space), Lit("-"), Star(Space), Year, WB>>)

\* str() of the tuple of two groups re.findall gives for a pattern with two groups
StrOfPair(a, b) == "('" \o a \o "', '" \o b \o "')"

RECURSIVE ERP_PairStrs(_, _)
\* str(match) for the matches of a pattern whose two groups are the first k and
\* the last 4 characters of the match
ERP_PairStrs(ms, k) ==
    IF ms = <<>> THEN <<>>
    ELSE LET m == Head(ms)
         IN  <<StrOfPair(SubSeq(m, 1, k), SubSeq(m, Len(m) - 3, Len(m)))>>
             \o ERP_PairStrs(Tail(ms), k)

MonthLen == 3

YearLen == 4

\* extract_dates_from_string: str() of every element of dates_found
ERP_dates_found(date_string) ==
    ERP_PairStrs(re_findall(ERP_month_year_pattern, date_string, TRUE), MonthLen)
    \o ERP_PairStrs(re_findall(ERP_year_range_pattern, date_string, TRUE), YearLen)
    \o re_findall(year_pattern, date_string, TRUE)

\* extract_dates_from_string: the record afterwards
extract_dates_from_string(date_string, record) ==
    LET dates_found == ERP_dates_found(date_string)
    IN  IF Len(dates_found) >= 2
        THEN Put(Put(record, "start_date", dates_found[1]), "end_date", dates_found[2])
        ELSE IF Len(dates_found) = 1
        THEN Put(record, "start_date", dates_found[1])
        ELSE record

\* r'\b(Inc|LLC|Corp|Company|Ltd|Group|Agency|Studio)\b', re.IGNORECASE
ERP_company_pattern ==
    Cat(<<WB, OneOf(<<"Inc", "LLC", "Corp", "Company", "Ltd", "Group", "Agency", "Studio">>), WB>>)

\* r'\b(Engineer|Developer|Manager|Analyst|Coordinator|Specialist|Director|Associate)\b'
ERP_job_title_pattern ==
    Cat(<<WB, OneOf(<<"Engineer", "Developer", "Manager", "Analyst", "Coordinator",
                      "Specialist", "Director", "Associate">>), WB>>)

\* not current_job.get('title')
NoValue(d, k) == ~Has(d, k) \/ d[k] = ""

RECURSIVE ERP_ExperienceLoop(_, _, _, _, _)
\* the loop of parse_experience and the append after it: the list experience
ERP_ExperienceLoop(lines, i, experience_section, current_job, experience) ==
    IF Evaluated(<<experience_section, current_job, experience>>) /\ i > Len(lines)
    THEN Flush(experience, current_job)
    ELSE LET line == lines[i]
             line_lower == str_lower(line)
         IN  IF AnyIn(<<"experience", "employment", "work history", "professional">>, line_lower)
             THEN ERP_ExperienceLoop(lines, i + 1, TRUE, current_job, experience)
             ELSE IF experience_section /\ AnyIn(<<"education", "skills", "projects">>, line_lower)
             THEN \* appended before the break, and again after the loop
                  Flush(Flush(experience, current_job), current_job)
             ELSE IF ~experience_section
             THEN ERP_ExperienceLoop(lines, i + 1, experience_section, current_job, experience)
             ELSE IF re_found(ERP_company_pattern, line, TRUE)
             THEN ERP_ExperienceLoop(lines, i + 1, experience_section,
                                     [company |-> str_strip(line), title |-> "",
                                      start_date |-> "", end_date |-> "", description |-> ""],
                                     Flush(experience, current_job))
             ELSE IF re_found(ERP_job_title_pattern, line, TRUE)
             THEN ERP_ExperienceLoop(lines, i + 1, experience_section,
                                     IF current_job # EmptyDict /\ NoValue(current_job, "title")
                                     THEN Put(current_job, "title", str_strip(line))
                                     ELSE current_job,
                                     experience)
             ELSE IF re_found(year_pattern, line, FALSE)
             THEN ERP_ExperienceLoop(lines, i + 1, experience_section,
                                     extract_dates_from_string(line, current_job), experience)
             ELSE ERP_ExperienceLoop(lines, i + 1, experience_section, current_job, experience)

ERP_AllExperience(text) == ERP_ExperienceLoop(NonEmptyLines(text), 1, FALSE, EmptyDict, <<>>)

ERP_MaxExperience == 5

\* parse_experience: the value stored in parsed_data['experience']
ERP_experience(text) == Take(ERP_AllExperience(text), ERP_MaxExperience)

ERP_work_indicators ==
    <<"instructor", "teacher", "manager", "director", "engineer", "developer",
      "analyst", "coordinator", "assistant", "specialist", "representative",
      "consultant", "administrator">>

ERP_AllEducation(text) == EducationLoop(NonEmptyLines(text), 1, FALSE, <<>>, ERP_work_indicators)

\* parse_education: the value stored in parsed_data['education']
ERP_education(text) == Take(ERP_AllEducation(text), MaxEducation)

ERP_tech_skills ==
    <<"python", "javascript", "java", "c++", "c#", "php", "ruby", "go", "rust", "swift",
      "react", "vue", "angular", "node", "express", "django", "flask", "rails",
      "html", "css", "sass", "less", "bootstrap", "tailwind",
      "sql", "postgresql", "mysql", "mongodb", "redis", "elasticsearch",
      "aws", "azure", "gcp", "docker", "kubernetes", "jenkins", "git", "github",
      "linux", "windows", "macos", "bash", "powershell",
      "machine learning", "ai", "data science", "analytics", "tableau", "powerbi">>

\* re.split(r'[,(bullet)(middle dot)\-\n]', line)
ERP_skill_delimiters == {",", BULLET, MIDDOT, "-", "\n"}

ERP_SkillWordMin == 2

ERP_SkillWordMax == 20

ERP_SkillWords(line) ==
    SelectSeq(MapStrip(str_split(line, ERP_skill_delimiters)),
              LAMBDA word : Len(word) > ERP_SkillWordMin /\ Len(word) < ERP_SkillWordMax)

RECURSIVE ERP_SkillsLoop(_, _, _, _)
\* the loop of parse_skills over the lines: the set skills when it ends
ERP_SkillsLoop(lines, i, skills_section, skills) ==
    IF Evaluated(<<skills_section, skills>>) /\ i > Len(lines) THEN skills
    ELSE LET line == lines[i]
             line_lower == str_lower(line)
         IN  IF AnyIn(<<"skills", "technologies", "tools", "languages">>, line_lower)
             THEN ERP_SkillsLoop(lines, i + 1, TRUE, skills)
             ELSE IF ~skills_section
             THEN ERP_SkillsLoop(lines, i + 1, skills_section, skills)
             ELSE IF AnyIn(<<"experience", "education", "projects">>, line_lower)
             THEN skills
             ELSE ERP_SkillsLoop(lines, i + 1, skills_section,
                                 SetAddAll(skills, ERP_SkillWords(line)))

\* the set skills at the end of parse_skills
ERP_SkillSet(text) ==
    ERP_SkillsLoop(NonEmptyLines(text), 1, FALSE,
                   SetAddAll(<<>>, VocabularyHits(ERP_tech_skills, str_lower(text))))

ERP_MaxSkills == 20

\* parse_skills: list(skills)[:20]
ERP_skills(text, seed) == Take(SetToList(ERP_SkillSet(text), seed), ERP_MaxSkills)

(***************************************************************************)
(* parse_resume_text (src/backend_server.py)                               *)
(***************************************************************************)
\* r'\+?1?[-.\s]?\(?\d{3}\)?[-.\s]?\d{3}[-.\s]?\d{4}'
BS_phone_pattern2 ==
    Cat(<<Opt(Lit("+")), Opt(Lit("1")), PhoneSep, Opt(Lit("(")), Rep(Digit, 3, 3),
          Opt(Lit(")")), PhoneSep, Rep(Digit, 3, 3), PhoneSep, Rep(Digit, 4, 4)>>)

BS_Phone(personal, text) ==
    LET m1 == re_search(us_phone_pattern, text, FALSE)
        m2 == re_search(BS_phone_pattern2, text, FALSE)
    IN  IF m1 # NoMatch THEN Put(personal, "phone", re_group(text, m1))
        ELSE IF m2 # NoMatch THEN Put(personal, "phone", re_group(text, m2))
        ELSE personal

\* r'^[A-Za-z\s]+$'
BS_name_pattern == Cat(<<BOL, Plus(Set(LetterChars \cup SpaceChars)), EOL>>)

BS_NameLenMin == 2

BS_NameLenMax == 50

BS_NameWordsMin == 2

BS_NameWordsMax == 4

\* the test of one stripped line of the name loop
BS_IsNameLine(line) ==
    /\ Len(line) > BS_NameLenMin /\ Len(line) < BS_NameLenMax
    /\ re_match(BS_name_pattern, line, FALSE)
    /\ Len(str_words(line)) >= BS_NameWordsMin /\ Len(str_words(line)) <= BS_NameWordsMax

BS_NameCandidates == 5

\* lines are the lines of text.split('\n'), not stripped, the empty ones included
BS_Name(personal, lines) ==
    LET first5 == MapStrip(Take(lines, BS_NameCandidates))
        hits == {i \in 1..Len(first5) : BS_IsNameLine(first5[i])}
    IN  IF hits = {} THEN personal
        ELSE LET line == first5[CHOOSE i \in hits : \A j \in hits : i <= j]
                 ws == str_words(line)
             IN  Put(Put(Put(personal, "full_name", line), "first_name", ws[1]),
                     "last_name", ws[Len(ws)])

BS_Linkedin(personal, text) ==
    LET m == re_search(linkedin_pattern, text, TRUE)
    IN  IF m # NoMatch THEN Put(personal, "linkedin", "https://" \o re_group(text, m))
        ELSE personal

BS_Github(personal, text) ==
    LET m == re_search(github_pattern, text, TRUE)
    IN  IF m # NoMatch THEN Put(personal, "github", "https://" \o re_group(text, m))
        ELSE personal

BS_personal(text) ==
    BS_Github(BS_Linkedin(BS_Name(BS_Phone(ERP_Email(EmptyDict, text), text),
                                  str_split(text, {"\n"})), text), text)

BS_education_keywords ==
    <<"university", "college", "institute", "school", "bachelor", "master", "phd", "degree">>

BS_MaxEducation == 3

RECURSIVE BS_EducationLoop(_, _, _, _)
BS_EducationLoop(lines, i, education_section, education) ==
    IF Evaluated(<<education_section, education>>) /\ i > Len(lines) THEN education
    ELSE LET line == lines[i]
             line_lower == str_lower(line)
         IN  IF AnyIn(<<"education", "academic">>, line_lower)
             THEN BS_EducationLoop(lines, i + 1, TRUE, education)
             ELSE IF education_section /\ AnyIn(BS_education_keywords, line_lower)
                     /\ Len(str_words(str_strip(line))) > 1
             THEN LET added == Append(education, [school |-> str_strip(line),
                                                  degree |-> "Degree", year |-> ""])
                  IN  IF Len(added) >= BS_MaxEducation THEN added
                      ELSE BS_EducationLoop(lines, i + 1, education_section, added)
             ELSE BS_EducationLoop(lines, i + 1, education_section, education)

BS_education(text) == BS_EducationLoop(str_split(text, {"\n"}), 1, FALSE, <<>>)

BS_job_titles ==
    <<"engineer", "developer", "manager", "analyst", "coordinator", "specialist", "director">>

BS_MaxExperience == 3

BS_TitleLenMin == 5

RECURSIVE BS_ExperienceLoop(_, _, _)
BS_ExperienceLoop(lines, i, experience) ==
    IF Evaluated(experience) /\ i > Len(lines) THEN experience
    ELSE LET line_clean == str_strip(lines[i])
         IN  IF Len(line_clean) > BS_TitleLenMin /\ AnyIn(BS_job_titles, str_lower(line_clean))
             THEN LET added == Append(experience,
                                      [title |-> line_clean, company |-> "Company Name",
                                       duration |-> "2020-2023",
                                       description |-> "Job description"])
                  IN  IF Len(added) >= BS_MaxExperience THEN added
                      ELSE BS_ExperienceLoop(lines, i + 1, added)
             ELSE BS_ExperienceLoop(lines, i + 1, experience)

BS_experience(text) == BS_ExperienceLoop(str_split(text, {"\n"}), 1, <<>>)

BS_skills_keywords ==
    <<"python", "javascript", "react", "node", "java", "sql", "aws", "docker", "git">>

\* the membership test with its operands exchanged: text_lower in skill
BS_skills_swapped(text) ==
    MapTitle(SelectSeq(BS_skills_keywords, LAMBDA skill : Contains(skill, str_lower(text))))

\* the skills loop: skill.title() for every keyword found in text.lower()
BS_skills(text) == VocabularyHits(BS_skills_keywords, str_lower(text))

\* parse_resume_text: the record it returns
parse_resume_text(text) ==
    [personal |-> BS_personal(text), experience |-> BS_experience(text),
     education |-> BS_education(text), skills |-> BS_skills(text)]

(***************************************************************************)
(* parse_linkedin_text (src/enhanced_backend_server.py)                    *)
(***************************************************************************)
RECURSIVE str_replace(_, _)
\* s.replace(old, ''): every occurrence of old removed, left to right
str_replace(s, old) ==
    LET at == {i \in 1..(Len(s) - Len(old) + 1) : SubSeq(s, i, i + Len(old) - 1) = old}
        first == CHOOSE i \in at : \A j \in at : i <= j
    IN  IF at = {} THEN s
        ELSE SubSeq(s, 1, first - 1)
             \o str_replace(SubSeq(s, first + Len(old), Len(s)), old)

\* line.replace(label, '').strip()
Labelled(line, label) == str_strip(str_replace(line, label))

\* d with d[k] = v when cond holds
PutIf(cond, d, k, v) == IF cond THEN Put(d, k, v) ELSE d

\* not d.get(k)
Unset(d, k) == ~Has(d, k) \/ d[k] = ""

LI_personal_headers ==
    {"PERSONAL INFORMATION", "EXPERIENCE", "EDUCATION", "SKILLS", "PROJECTS",
     "CERTIFICATIONS", "LANGUAGES", "SUMMARY"}

\* full_name and, with two or more words, first_name and last_name
LI_PutName(personal, name) ==
    LET name_parts == str_words(name)
        p1 == Put(personal, "full_name", name)
    IN  IF Len(name_parts) >= 2
        THEN Put(Put(p1, "first_name", name_parts[1]), "last_name", name_parts[Len(name_parts)])
        ELSE p1

LI_NameCandidates == 5

LI_NameLenMin == 3

LI_NameLenMax == 100

\* the condition of the fallback for the name; i counts the lines from 0
LI_IsNameLine(i, line) ==
    /\ i < LI_NameCandidates /\ Len(line) > LI_NameLenMin /\ Len(line) < LI_NameLenMax
    /\ ~Contains(str_lower(line), "developer") /\ ~Contains(str_lower(line), "engineer")
    /\ ~Contains(str_lower(line), "information") /\ ~Contains(line, ":")
    /\ ~str_startswith(line, "School:") /\ ~str_startswith(line, "Degree:")
    /\ ~str_startswith(line, "Year:") /\ ~str_startswith(line, "Title:")
    /\ ~str_startswith(line, "Company:") /\ ~str_startswith(line, "Dates:")
    /\ ~str_startswith(line, "Description:")

LI_headline_keywords ==
    <<"developer", "engineer", "manager", "analyst", "coordinator", "specialist",
      "director", "lead", "senior", "junior">>

LI_HeadlineLenMax == 200

LI_EmailLenMax == 100

\* r'\b\d{3}[-.\s]?\d{3}[-.\s]?\d{4}\b'
LI_phone_pattern ==
    Cat(<<WB, Rep(Digit, 3, 3), PhoneSep, Rep(Digit, 3, 3), PhoneSep, Rep(Digit, 4, 4), WB>>)

LI_location_keywords ==
    <<"japan", "tokyo", "california", "san francisco", "new york", "london", "paris",
      "berlin", "amsterdam", "singapore", "sydney", "toronto", "vancouver">>

\* r'[A-Z][a-z]+,\s*[A-Z][a-z]+'
LI_city_pattern ==
    Cat(<<Set(UpperChars), Plus(Set(LowerChars)), Lit(","), Star(Space), Set(UpperChars),
          Plus(Set(LowerChars))>>)

\* the fallbacks that follow the name fallback, for a line that fell through it
LI_AfterName(personal, line) ==
    LET line_lower == str_lower(line)
        email_match == re_search(email_pattern, line, FALSE)
        phone_match == re_search(LI_phone_pattern, line, FALSE)
    IN  IF AnyIn(LI_headline_keywords, line_lower) /\ Len(line) < LI_HeadlineLenMax
           /\ Unset(personal, "headline")
        THEN Put(personal, "headline", line)
        ELSE IF Contains(line, "@") /\ Contains(line, ".") /\ Len(line) < LI_EmailLenMax
                /\ email_match # NoMatch
        THEN Put(personal, "email", re_group(line, email_match))
        ELSE IF phone_match # NoMatch
        THEN Put(personal, "phone", re_group(line, phone_match))
        ELSE IF (AnyIn(LI_location_keywords, line_lower) \/ re_found(LI_city_pattern, line, FALSE))
                /\ Unset(personal, "location")
        THEN Put(personal, "location", line)
        ELSE personal

\* one iteration of the loop over the lines that fills parsed_data['personal'];
\* i counts the lines from 0
LI_PersonalStep(personal, i, line) ==
    IF str_upper(line) \in LI_personal_headers THEN personal
    ELSE IF str_startswith(line, "Name:")
    THEN LET name == Labelled(line, "Name:")
         IN  IF name # "" /\ ~Contains(str_lower(name), "information")
             THEN LI_PutName(personal, name) ELSE personal
    ELSE IF str_startswith(line, "Headline:")
    THEN PutIf(Labelled(line, "Headline:") # "", personal, "headline", Labelled(line, "Headline:"))
    ELSE IF str_startswith(line, "Location:")
    THEN PutIf(Labelled(line, "Location:") # "", personal, "location", Labelled(line, "Location:"))
    ELSE IF str_startswith(line, "Email:")
    THEN LET email == Labelled(line, "Email:")
         IN  PutIf(email # "" /\ Contains(email, "@"), personal, "email", email)
    ELSE IF str_startswith(line, "Phone:")
    THEN PutIf(Labelled(line, "Phone:") # "", personal, "phone", Labelled(line, "Phone:"))
    ELSE IF str_startswith(line, "LinkedIn:")
    THEN PutIf(Labelled(line, "LinkedIn:") # "", personal, "linkedin", Labelled(line, "LinkedIn:"))
    ELSE IF LI_IsNameLine(i, line) /\ Unset(personal, "full_name")
    THEN LI_PutName(personal, line)
    ELSE LI_AfterName(personal, line)

RECURSIVE LI_PersonalLoop(_, _, _)
LI_PersonalLoop(lines, i, personal) ==
    IF Evaluated(personal) /\ i > Len(lines) THEN personal
    ELSE LI_PersonalLoop(lines, i + 1, LI_PersonalStep(personal, i - 1, lines[i]))

LI_personal(text) == LI_PersonalLoop(NonEmptyLines(text), 1, EmptyDict)

LI_section_headers == {"EXPERIENCE", "EDUCATION", "SKILLS", "PROJECTS"}

\* if current_job and current_job.get('title'): parsed_data['experience'].append(current_job)
LI_FlushJob(experience, current_job) ==
    IF current_job # EmptyDict /\ current_job.title # "" THEN Append(experience, current_job)
    ELSE experience

LI_NewJob(t) == [title |-> t, company |-> "", dates |-> "", description |-> ""]

LI_job_title_keywords ==
    <<"engineer", "developer", "manager", "analyst", "coordinator", "specialist",
      "director", "lead", "senior", "junior", "consultant", "architect">>

LI_company_keywords ==
    <<"inc", "llc", "corp", "company", "ltd", "group", "agency", "startup", "tech",
      "systems", "solutions">>

\* r'\b(jan|feb|mar|apr|may|jun|jul|aug|sep|oct|nov|dec)\b' on line_lower
LI_month_pattern ==
    Cat(<<WB, OneOf(<<"jan", "feb", "mar", "apr", "may", "jun", "jul", "aug", "sep",
                      "oct", "nov", "dec">>), WB>>)

LI_DescriptionLenMin == 30

\* one line inside the experience section: the open entry afterwards (the
\* entries started by Title: lines and title keywords are handled by the loop)
LI_JobLine(current_job, line) ==
    LET line_lower == str_lower(line)
        open == current_job # EmptyDict
    IN  IF str_startswith(line, "Company:")
        THEN IF open /\ current_job.company = ""
             THEN [current_job EXCEPT !.company = Labelled(line, "Company:")] ELSE current_job
        ELSE IF str_startswith(line, "Dates:")
        THEN IF open /\ current_job.dates = ""
             THEN [current_job EXCEPT !.dates = Labelled(line, "Dates:")] ELSE current_job
        ELSE IF str_startswith(line, "Description:")
        THEN IF open
             THEN [current_job EXCEPT !.description = Labelled(line, "Description:")]
             ELSE current_job
        ELSE IF AnyIn(LI_company_keywords, line_lower) \/ Contains(line, BULLET)
        THEN IF open /\ current_job.company = ""
             THEN [current_job EXCEPT !.company = line] ELSE current_job
        ELSE IF re_found(year_pattern, line, FALSE) \/ re_found(LI_month_pattern, line_lower, FALSE)
        THEN IF open /\ current_job.dates = ""
             THEN [current_job EXCEPT !.dates = line] ELSE current_job
        ELSE IF Len(line) > LI_DescriptionLenMin /\ open /\ ~IsBulletLine(line)
        THEN [current_job EXCEPT !.description =
                 IF current_job.description # "" THEN current_job.description \o " " \o line
                 ELSE line]
        ELSE current_job

RECURSIVE LI_ExperienceLoop(_, _, _, _, _)
\* the experience loop and the append after it: parsed_data['experience']
LI_ExperienceLoop(lines, i, experience_section, current_job, experience) ==
    IF Evaluated(<<experience_section, current_job, experience>>) /\ i > Len(lines)
    THEN LI_FlushJob(experience, current_job)
    ELSE LET line == lines[i]
             line_lower == str_lower(line)
         IN  IF Contains(line_lower, "experience") \/ str_upper(line) = "EXPERIENCE"
             THEN LI_ExperienceLoop(lines, i + 1, TRUE, current_job, experience)
             ELSE IF (experience_section /\ AnyIn(<<"education", "skills", "projects">>, line_lower))
                     \/ str_upper(line) \in {"EDUCATION", "SKILLS", "PROJECTS"}
             THEN \* appended before the break, and again after the loop
                  LI_FlushJob(LI_FlushJob(experience, current_job), current_job)
             ELSE IF ~experience_section \/ str_strip(line) = ""
                     \/ str_upper(line) \in LI_section_headers
             THEN LI_ExperienceLoop(lines, i + 1, experience_section, current_job, experience)
             ELSE IF str_startswith(line, "Title:")
             THEN LI_ExperienceLoop(lines, i + 1, experience_section,
                                    LI_NewJob(Labelled(line, "Title:")),
                                    LI_FlushJob(experience, current_job))
             ELSE IF ~str_startswith(line, "Company:") /\ ~str_startswith(line, "Dates:")
                     /\ ~str_startswith(line, "Description:")
                     /\ AnyIn(LI_job_title_keywords, line_lower)
             THEN LI_ExperienceLoop(lines, i + 1, experience_section, LI_NewJob(line),
                                    LI_FlushJob(experience, current_job))
             ELSE LI_ExperienceLoop(lines, i + 1, experience_section,
                                    LI_JobLine(current_job, line), experience)

LI_experience(text) == LI_ExperienceLoop(NonEmptyLines(text), 1, FALSE, EmptyDict, <<>>)

\* f"{current_edu.get('school', '')}-{current_edu.get('degree', '')}"
LI_edu_key(current_edu) == current_edu.school \o "-" \o current_edu.degree

\* the append of the open entry unless it has no school or its key was seen
LI_FlushEdu(st, current_edu) ==
    IF current_edu # EmptyDict /\ current_edu.school # ""
       /\ LI_edu_key(current_edu) \notin st.seen_education
    THEN [education |-> Append(st.education, current_edu),
          seen_education |-> st.seen_education \cup {LI_edu_key(current_edu)}]
    ELSE st

LI_NewEdu(school) == [school |-> school, degree |-> "", year |-> ""]

LI_school_keywords == <<"university", "college", "institute", "school">>

LI_degree_keywords ==
    <<"bachelor", "master", "phd", "mba", "bs", "ba", "ms", "ma", "degree", "diploma",
      "certificate">>

\* one line inside the education section that starts no entry: the open entry
LI_EduLine(current_edu, line) ==
    LET open == current_edu # EmptyDict
        year_match == re_search(year_pattern, line, FALSE)
    IN  IF str_startswith(line, "Degree:")
        THEN IF open /\ current_edu.degree = ""
             THEN [current_edu EXCEPT !.degree = Labelled(line, "Degree:")] ELSE current_edu
        ELSE IF str_startswith(line, "Year:")
        THEN IF open /\ current_edu.year = ""
             THEN [current_edu EXCEPT !.year = Labelled(line, "Year:")] ELSE current_edu
        ELSE IF AnyIn(LI_degree_keywords, str_lower(line))
        THEN IF open /\ current_edu.degree = ""
             THEN [current_edu EXCEPT !.degree = line] ELSE current_edu
        ELSE IF year_match # NoMatch /\ open /\ current_edu.year = ""
        THEN [current_edu EXCEPT !.year = re_group(line, year_match)]
        ELSE current_edu

RECURSIVE LI_EducationLoop(_, _, _, _, _)
\* the education loop and the append after it: education and seen_education
LI_EducationLoop(lines, i, education_section, current_edu, st) ==
    IF Evaluated(<<education_section, current_edu, st>>) /\ i > Len(lines)
    THEN LI_FlushEdu(st, current_edu)
    ELSE LET line == lines[i]
             line_lower == str_lower(line)
         IN  IF Contains(line_lower, "education") \/ str_upper(line) = "EDUCATION"
             THEN LI_EducationLoop(lines, i + 1, TRUE, current_edu, st)
             ELSE IF (education_section /\ AnyIn(<<"experience", "skills", "projects">>, line_lower))
                     \/ str_upper(line) \in {"EXPERIENCE", "SKILLS", "PROJECTS"}
             THEN LI_FlushEdu(LI_FlushEdu(st, current_edu), current_edu)
             ELSE IF ~education_section \/ str_strip(line) = ""
                     \/ str_upper(line) \in LI_section_headers
             THEN LI_EducationLoop(lines, i + 1, education_section, current_edu, st)
             ELSE IF str_startswith(line, "School:")
             THEN LI_EducationLoop(lines, i + 1, education_section,
                                   LI_NewEdu(Labelled(line, "School:")),
                                   LI_FlushEdu(st, current_edu))
             ELSE IF ~str_startswith(line, "Degree:") /\ ~str_startswith(line, "Year:")
                     /\ AnyIn(LI_school_keywords, line_lower)
             THEN LI_EducationLoop(lines, i + 1, education_section, LI_NewEdu(line),
                                   LI_FlushEdu(st, current_edu))
             ELSE LI_EducationLoop(lines, i + 1, education_section,
                                   LI_EduLine(current_edu, line), st)

LI_education(text) ==
    LI_EducationLoop(NonEmptyLines(text), 1, FALSE, EmptyDict,
                     [education |-> <<>>, seen_education |-> {}]).education

LI_SkillWordMin == 2

LI_SkillWordMax == 30

LI_SkillWords(line) ==
    SelectSeq(MapStrip(str_split(line, ERP_skill_delimiters)),
              LAMBDA word : Len(word) > LI_SkillWordMin /\ Len(word) < LI_SkillWordMax)

RECURSIVE LI_SkillsLoop(_, _, _, _)
LI_SkillsLoop(lines, i, skills_section, skills) ==
    IF Evaluated(<<skills_section, skills>>) /\ i > Len(lines) THEN skills
    ELSE LET line == lines[i]
             line_lower == str_lower(line)
         IN  IF Contains(line_lower, "skills") \/ str_upper(line) = "SKILLS"
             THEN LI_SkillsLoop(lines, i + 1, TRUE, skills)
             ELSE IF (skills_section /\ AnyIn(<<"experience", "education", "projects">>, line_lower))
                     \/ str_upper(line) \in {"EXPERIENCE", "EDUCATION", "PROJECTS"}
             THEN skills
             ELSE IF ~skills_section \/ str_strip(line) = ""
                     \/ str_upper(line) \in LI_section_headers
             THEN LI_SkillsLoop(lines, i + 1, skills_section, skills)
             ELSE LI_SkillsLoop(lines, i + 1, skills_section,
                                SetAddAll(skills, LI_SkillWords(line)))

LI_tech_skills ==
    <<"python", "javascript", "java", "c++", "c#", "php", "ruby", "go", "rust", "swift",
      "react", "vue", "angular", "node", "express", "django", "flask", "rails",
      "html", "css", "sass", "less", "bootstrap", "tailwind",
      "sql", "postgresql", "mysql", "mongodb", "redis", "elasticsearch",
      "aws", "azure", "gcp", "docker", "kubernetes", "jenkins", "git", "github",
      "linux", "windows", "macos", "bash", "powershell">>

\* the set skills: the words of the skills section, then the vocabulary hits
LI_SkillSet(text) ==
    SetAddAll(LI_SkillsLoop(NonEmptyLines(text), 1, FALSE, <<>>),
              VocabularyHits(LI_tech_skills, str_lower(text)))

LI_MaxSkills == 20

LI_skills(text, seed) == Take(SetToList(LI_SkillSet(text), seed), LI_MaxSkills)

\* parse_linkedin_text: the record it returns
parse_linkedin_text(text, seed) ==
    [personal |-> LI_personal(text), experience |-> LI_experience(text),
     education |-> LI_education(text), skills |-> LI_skills(text, seed)]

(***************************************************************************)
(* Uploaded documents.  A page or a rasterized image is what reading it    *)
(* does: it raises, or it yields its text.  A document is its pages, what  *)
(* opening it does, and what the OCR environment does with it:             *)
(* ocr_available is "convert_from_path is not None", convert_raises is     *)
(* convert_from_path raising, images are the rasterized pages.             *)
(***************************************************************************)
Page(raises, text) == [raises |-> raises, text |-> text]

BadPage == Page(TRUE, "")

\* the texts of the pages (or images) of ps that satisfy Keep, in order
PageTexts(ps, Keep(_)) ==
    LET kept == SelectSeq(ps, Keep)
    IN  [i \in 1..Len(kept) |-> kept[i].text]

RECURSIVE ConcatLines(_)
\* text += page_text + "\n" for every text of the list
ConcatLines(texts) ==
    IF texts = <<>> THEN "" ELSE Head(texts) \o "\n" \o ConcatLines(Tail(texts))

AnyRaises(ps) == \E i \in 1..Len(ps) : ps[i].raises

\* ResumeParser.extract_text_from_pdf: the new text_content
RP_extract_text_from_pdf(doc) ==
    IF doc.open_raises THEN ""
    ELSE str_join("\n", PageTexts(doc.pages,
                                  LAMBDA page : ~page.raises /\ str_strip(page.text) # ""))

\* ResumeParser.extract_text_with_ocr: the new text_content
RP_extract_text_with_ocr(doc, text_content) ==
    LET ocr_text_parts ==
            PageTexts(doc.images, LAMBDA image : ~image.raises /\ str_strip(image.text) # "")
    IN  IF doc.convert_raises \/ ocr_text_parts = <<>> THEN text_content
        ELSE str_join("\n", ocr_text_parts)

RP_MinDirectChars == 100

\* a parse that falls back to OCR only when the direct text is blank
RP_NeedsOcrWhenBlank(text_content) == str_strip(text_content) = ""

\* ResumeParser.parse, step 2: len(self.text_content.strip()) < 100
RP_NeedsOcr(text_content) == Len(str_strip(text_content)) < RP_MinDirectChars

\* EnhancedResumeParser.extract_text_from_pdf, the direct extraction: whether
\* it raised, and extracted_text
ERP_DirectExtraction(doc) ==
    IF doc.open_raises \/ AnyRaises(doc.pages) THEN [raised |-> TRUE, text |-> ""]
    ELSE [raised |-> FALSE,
          text |-> ConcatLines(PageTexts(doc.pages, LAMBDA page : page.text # ""))]

ERP_MinDirectChars == 100

\* EnhancedResumeParser.extract_text_from_pdf: len(extracted_text.strip()) > 100
ERP_DirectIsMeaningful(extracted_text) == Len(str_strip(extracted_text)) > ERP_MinDirectChars

ERP_OcrUnavailableText == "Error: pdf2image is not available. Cannot perform OCR extraction."

ERP_OcrFailedText == "Error: Could not extract text from PDF"

\* EnhancedResumeParser.extract_text_with_ocr: the new text_content
ERP_extract_text_with_ocr(doc) ==
    IF ~doc.ocr_available THEN ERP_OcrUnavailableText
    ELSE IF doc.convert_raises \/ AnyRaises(doc.images) THEN ERP_OcrFailedText
    ELSE ConcatLines(PageTexts(doc.images, LAMBDA image : image.text # ""))

\* backend_server.extract_text_from_pdf: whether it returns None, and the text
BS_extract_text_from_pdf(doc) ==
    IF doc.open_raises \/ AnyRaises(doc.pages) THEN [none |-> TRUE, text |-> ""]
    ELSE [none |-> FALSE, text |-> ConcatLines(PageTexts(doc.pages, LAMBDA page : TRUE))]

(***************************************************************************)
(* The state machine: one parse of one input by one of the entry points,   *)
(* a step per method call, and a second parse of the same input.           *)
(***************************************************************************)
VARIABLES
    impl,          \* the entry point that runs
    doc,           \* the uploaded document (entry points that read a PDF)
    hash_seed,     \* the string-hash seed of the running Python process
    pc,            \* the method that runs next, or "done"
    text_content,  \* self.text_content / the text argument
    parsed_data,   \* self.parsed_data / the record being built
    calls,         \* the methods called so far in this parse, in order
    direct,        \* what the direct (text-layer) extraction produced
    status,        \* "running", "returned", or the HTTP error of the handler
    previous,      \* <<the record of the previous parse of this input>>, or <<>>
    uploads,       \* the file that each concurrent request uploads
    files,         \* the upload folder: the document stored under each path
    requests,      \* each concurrent request: its position, its path, its response
    rate_limits,   \* rate_limits: the admission times recorded for each client address
    clock,         \* time.time(), in seconds
    threads,       \* each server thread: its position in the rate limiter, its request
    admitted,      \* the times of the requests of each client that reached the handler
    arrivals       \* the number of requests that have arrived

\* the state of the rate limiter of enhanced_backend_server
limiter == <<rate_limits, clock, threads, admitted, arrivals>>

\* the state of the servers that handle concurrent requests
handlers == <<uploads, files, requests, limiter>>

Clients == {"10.0.0.1", "10.0.0.2"}

MaxThreads == 2

Threads == 1..MaxThreads

IdleThread == [pc |-> "idle", client_ip |-> "", now |-> 0, kept |-> <<>>]

\* rate_limits = defaultdict(list), and no request has arrived
LimiterIdle ==
    /\ rate_limits = [c \in Clients |-> <<>>]
    /\ clock = 0
    /\ threads = [t \in Threads |-> IdleThread]
    /\ admitted = [c \in Clients |-> <<>>]
    /\ arrivals = 0

vars ==
    <<impl, doc, hash_seed, pc, text_content, parsed_data, calls, direct, status, previous,
      handlers>>

PdfEntryPoints == {"ResumeParser", "EnhancedResumeParser", "backend_server"}

TextEntryPoints == {"parse_resume_text", "parse_linkedin_text"}

\* the first method of an entry point
FirstCall(entry) == IF entry \in PdfEntryPoints THEN "extract_text_from_pdf" ELSE entry

\* parsed_data as the constructor leaves it (the text functions build theirs)
InitialData(entry) == IF entry = "ResumeParser" THEN RP_InitialData ELSE EmptyDict

NoDirect == [done |-> FALSE, failed |-> FALSE, text |-> ""]

Called(method) == \E i \in 1..Len(calls) : calls[i] = method

\* the step of a method of entry point entry: it is the next to run
At(entry, method) == impl = entry /\ pc = method /\ status = "running"

\* the method has run: to is what runs next
Goto(method, to) ==
    /\ calls' = Append(calls, method)
    /\ pc' = to
    /\ status' = IF to = "done" THEN "returned" ELSE "running"

ResumeParserExtractTextFromPdf ==
    /\ At("ResumeParser", "extract_text_from_pdf")
    /\ text_content' = RP_extract_text_from_pdf(doc)
    /\ direct' = [done |-> TRUE, failed |-> FALSE, text |-> text_content']
    /\ Goto("extract_text_from_pdf",
            IF RP_NeedsOcr(text_content') THEN "extract_text_with_ocr"
            ELSE IF str_strip(text_content') # "" THEN "parse_personal_information"
            ELSE "done")
    /\ UNCHANGED <<handlers, impl, doc, hash_seed, parsed_data, previous>>

ResumeParserExtractTextWithOcr ==
    /\ At("ResumeParser", "extract_text_with_ocr")
    /\ text_content' = RP_extract_text_with_ocr(doc, text_content)
    /\ Goto("extract_text_with_ocr",
            IF str_strip(text_content') # "" THEN "parse_personal_information" ELSE "done")
    /\ UNCHANGED <<handlers, impl, doc, hash_seed, parsed_data, direct, previous>>

\* an extractor of ResumeParser: it fills its fields and the next one runs
RP_Extractor(method, data, to) ==
    /\ At("ResumeParser", method)
    /\ parsed_data' = data
    /\ Goto(method, to)
    /\ UNCHANGED <<handlers, impl, doc, hash_seed, text_content, direct, previous>>

\* what an extractor of ResumeParser does to parsed_data: it assigns the
\* field or fields that it computed from the text
RP_Step(method, data, text, seed) ==
    CASE method = "parse_personal_information" -> Put(data, "personal", RP_personal(text))
      [] method = "parse_summary" -> Put(data, "summary", RP_summary(text))
      [] method = "parse_experience" -> Put(data, "experience", RP_experience(text))
      [] method = "parse_education" -> Put(data, "education", RP_education(text))
      [] method = "parse_skills" ->
             Put(Put(data, "skills", RP_skills(text, seed)),
                 "technical_skills", RP_technical_skills(text, seed))
      [] method = "parse_projects" -> Put(data, "projects", RP_projects(text))
      [] method = "parse_languages" -> Put(data, "languages", RP_languages(text))
      [] method = "parse_certifications" ->
             Put(data, "certifications", RP_certifications(text))

\* the extractor has run on the text of the document
RP_Run(method) == RP_Step(method, parsed_data, text_content, hash_seed)

ResumeParserParsePersonalInformation ==
    RP_Extractor("parse_personal_information", RP_Run("parse_personal_information"),
                 "parse_summary")

ResumeParserParseSummary ==
    RP_Extractor("parse_summary", RP_Run("parse_summary"), "parse_experience")

ResumeParserParseExperience ==
    RP_Extractor("parse_experience", RP_Run("parse_experience"), "parse_education")

\* a parse_education that also empties the list of another extractor
ResumeParserParseEducationSharingList ==
    RP_Extractor("parse_education", Put(RP_Run("parse_education"), "experience", <<>>),
                 "parse_skills")

ResumeParserParseEducation ==
    RP_Extractor("parse_education", RP_Run("parse_education"), "parse_skills")

ResumeParserParseSkills ==
    RP_Extractor("parse_skills", RP_Run("parse_skills"), "parse_projects")

ResumeParserParseProjects ==
    RP_Extractor("parse_projects", RP_Run("parse_projects"), "parse_languages")

ResumeParserParseLanguages ==
    RP_Extractor("parse_languages", RP_Run("parse_languages"), "parse_certifications")

ResumeParserParseCertifications ==
    RP_Extractor("parse_certifications", RP_Run("parse_certifications"),
                 "clean_and_validate_data")

ResumeParserCleanAndValidateData ==
    RP_Extractor("clean_and_validate_data", clean_and_validate_data(parsed_data), "done")

EnhancedResumeParserExtractTextFromPdf ==
    /\ At("EnhancedResumeParser", "extract_text_from_pdf")
    /\ LET extraction == ERP_DirectExtraction(doc)
           meaningful == ~extraction.raised /\ ERP_DirectIsMeaningful(extraction.text)
       IN  /\ direct' = [done |-> TRUE, failed |-> extraction.raised, text |-> extraction.text]
           /\ text_content' = IF meaningful THEN extraction.text ELSE text_content
           /\ Goto("extract_text_from_pdf",
                   IF meaningful THEN "parse_personal_information" ELSE "extract_text_with_ocr")
    /\ UNCHANGED <<handlers, impl, doc, hash_seed, parsed_data, previous>>

EnhancedResumeParserExtractTextWithOcr ==
    /\ At("EnhancedResumeParser", "extract_text_with_ocr")
    /\ text_content' = ERP_extract_text_with_ocr(doc)
    /\ Goto("extract_text_with_ocr", "parse_personal_information")
    /\ UNCHANGED <<handlers, impl, doc, hash_seed, parsed_data, direct, previous>>

\* an extractor of EnhancedResumeParser
ERP_Extractor(method, data, to) ==
    /\ At("EnhancedResumeParser", method)
    /\ parsed_data' = data
    /\ Goto(method, to)
    /\ UNCHANGED <<handlers, impl, doc, hash_seed, text_content, direct, previous>>

EnhancedResumeParserParsePersonalInformation ==
    ERP_Extractor("parse_personal_information",
                  Put(parsed_data, "personal", ERP_personal(text_content)), "parse_experience")

EnhancedResumeParserParseExperience ==
    ERP_Extractor("parse_experience",
                  Put(parsed_data, "experience", ERP_experience(text_content)),
                  "parse_education")

\* a parse() that goes from parse_education to the cleaner
EnhancedResumeParserParseEducationThenClean ==
    ERP_Extractor("parse_education",
                  Put(parsed_data, "education", ERP_education(text_content)),
                  "clean_and_validate_data")

EnhancedResumeParserParseEducation ==
    ERP_Extractor("parse_education",
                  Put(parsed_data, "education", ERP_education(text_content)), "parse_skills")

EnhancedResumeParserParseSkills ==
    ERP_Extractor("parse_skills",
                  Put(parsed_data, "skills", ERP_skills(text_content, hash_seed)),
                  "clean_and_validate_data")

EnhancedResumeParserCleanAndValidateData ==
    ERP_Extractor("clean_and_validate_data", clean_and_validate_data(parsed_data), "done")

\* backend_server.parse_resume, from the call of extract_text_from_pdf to the
\* test of its result: "if text:" is false for None and for the empty string
BackendServerExtractTextFromPdf ==
    /\ At("backend_server", "extract_text_from_pdf")
    /\ LET extraction == BS_extract_text_from_pdf(doc)
       IN  /\ direct' = [done |-> TRUE, failed |-> extraction.none, text |-> extraction.text]
           /\ text_content' = extraction.text
           /\ calls' = Append(calls, "extract_text_from_pdf")
           /\ IF ~extraction.none /\ extraction.text # ""
              THEN pc' = "parse_resume_text" /\ status' = "running"
              ELSE pc' = "done" /\ status' = "http_400"
    /\ UNCHANGED <<handlers, impl, doc, hash_seed, parsed_data, previous>>

\* parse_resume_text, called by the handler or directly with a text
ParseResumeText ==
    /\ impl \in {"backend_server", "parse_resume_text"}
    /\ pc = "parse_resume_text" /\ status = "running"
    /\ parsed_data' = parse_resume_text(text_content)
    /\ Goto("parse_resume_text", "done")
    /\ UNCHANGED <<handlers, impl, doc, hash_seed, text_content, direct, previous>>

\* parse_linkedin_text, called with the text of the request
ParseLinkedinText ==
    /\ At("parse_linkedin_text", "parse_linkedin_text")
    /\ parsed_data' = parse_linkedin_text(text_content, hash_seed)
    /\ Goto("parse_linkedin_text", "done")
    /\ UNCHANGED <<handlers, impl, doc, hash_seed, text_content, direct, previous>>

\* the last hash seed the model draws
MaxSeed == 1

Seeds == 0..MaxSeed

\* The same input is parsed a second time, by the same process or by a new
\* one (a new process has its own hash seed).
ParseAgain ==
    /\ pc = "done" /\ status = "returned" /\ previous = <<>>
    /\ previous' = <<parsed_data>>
    /\ hash_seed' \in Seeds
    /\ pc' = FirstCall(impl)
    /\ status' = "running"
    /\ parsed_data' = InitialData(impl)
    /\ text_content' = IF impl \in PdfEntryPoints THEN "" ELSE text_content
    /\ calls' = <<>>
    /\ direct' = NoDirect
    /\ UNCHANGED <<handlers, impl, doc>>

(***************************************************************************)
(* The inputs of the model                                                 *)
(***************************************************************************)
RECURSIVE Repeat(_, _)
Repeat(s, k) == IF k = 0 THEN "" ELSE s \o Repeat(s, k - 1)

FillWord == "lorem "

\* a text of exactly n characters of running prose; n is not a multiple of
\* the length of FillWord, so that the text ends in a letter
Fill(n) == SubSeq(Repeat(FillWord, n \div Len(FillWord) + 1), 1, n)

\* the blocks resumes are composed of
NameBlock == "Jane Q. Doe\njane.doe@example.com\n"

ExperienceBlock == "Experience\nSoftware Developer 2019 - 2021\nAcme Inc\n"

EducationBlock == "Education\nSenior Engineer\nState University 2015\n"

SkillsBlock == "Skills\nPython, python, Go\n"

Blocks == {NameBlock, ExperienceBlock, EducationBlock, SkillsBlock}

\* the most blocks of a composed resume
MaxBlocks == 2

RECURSIVE BlockTextsOf(_)
\* the resumes of exactly k distinct blocks, in every order
BlockTextsOf(k) ==
    IF k = 0 THEN {""}
    ELSE {t \o b : t \in BlockTextsOf(k - 1), b \in Blocks}

\* a block occurs at most once in a resume
BlockOnce(t) ==
    \A b \in Blocks :
        Len(str_replace(t, b)) >= Len(t) - Len(b)

BlockTexts == {t \in UNION {BlockTextsOf(k) : k \in 0..MaxBlocks} : BlockOnce(t)}

\* the most entries of a section of a generated resume
MaxEntries == 6

RECURSIVE EntryLines(_, _, _)
\* the lines F(1) .. F(n), each ended by a newline, after those of acc
EntryLines(F(_), n, acc) ==
    IF n = 0 THEN acc ELSE EntryLines(F, n - 1, F(n) \o "\n" \o acc)

SkillTokens(k) ==
    LET c == Ch(LowerAlpha, k)
    IN  str_join(", ", <<c \o "aa", c \o "ab", c \o "ac", c \o "ad", c \o "ae">>)

\* a resume with n entries in every section
EntryText(n) ==
    "Experience\n" \o EntryLines(LAMBDA k : "Engineer " \o Ch(UpperAlpha, k), n, "")
    \o "Education\n" \o EntryLines(LAMBDA k : "College " \o Ch(UpperAlpha, k), n, "")
    \o "Technical Skills\n" \o EntryLines(SkillTokens, n, "")
    \o "Projects\n" \o EntryLines(LAMBDA k : "Project " \o Ch(UpperAlpha, k), n, "")
    \o "Certifications\n" \o EntryLines(LAMBDA k : "Certified " \o Ch(UpperAlpha, k), n, "")

EntryTexts == {EntryText(n) : n \in (MaxEntries - 1)..MaxEntries}

\* a job whose dates come before its company and its title
DatedJobText == "Experience\n2019 - 2021\nAcme Inc\nSoftware Engineer\n"

\* a job with two lines that carry years
RevisedDatesText == "Experience\nAcme Inc\nSoftware Engineer\n2019 - 2021\nPromoted 2020\n"

\* a college named after the education section has ended
LateCollegeText == "Education\nState University 2015\nSkills\nPython\nBoston College\n"

\* skills of 2, 3, 24 and 25 characters
LongSkillText ==
    "Skills\nQt, Ada, Requirements Engineering, Continuous Integration CI\n"

\* twenty-five skills, and a technical skill after them
ManySkillsText ==
    "Skills\n" \o EntryLines(SkillTokens, 5, "") \o "Technical Skills\nVerilog\n"

\* a name line, and a labelled name of one word after it
RenamedProfile == "Jane Doe\nName: Cher\n"

\* a profile with labelled lines and lines that the heuristics match
LabelledProfile ==
    "Name: Jane Doe\nEmail: jane@example.com\nWrite to j.doe@example.org\n"
    \o "Experience\nTitle: Developer\nAcme Inc\nCompany: Globex\n"

\* a skills section, the header of another section, and a second skills header
SkillsAgainText == "Skills\nRowing, Chess\nExperience\nTools\nHammer, Anvil\n"

\* single cases: names, e-mail addresses and their look-alikes, labelled lines
CaseTexts ==
    {"Jane Doe\nPortland office\n",
     "Resume\nJane Q. Doe\n(555) 123-4567\n",
     "Jane Doe\njane.doe@@example\n",
     "Name: Jane Q. Doe\nEmail: jane.doe@@example\n",
     "Email: jane@example.com\nExperience\nTitle: Developer\nCompany: Acme\n",
     "Work History\nAcme Inc\nData Analyst\nAcademic Background\nSenior Engineer\nBoston College\n",
     DatedJobText, LabelledProfile, SkillsAgainText, RevisedDatesText, LateCollegeText,
     LongSkillText, ManySkillsText, RenamedProfile}

InputTexts == BlockTexts \cup EntryTexts \cup CaseTexts

\* what the OCR environment does with a document
OcrEnv(available, convert_raises, images) ==
    [ocr_available |-> available, convert_raises |-> convert_raises, images |-> images]

Doc(open_raises, pages, env) ==
    [open_raises |-> open_raises, pages |-> pages, ocr_available |-> env.ocr_available,
     convert_raises |-> env.convert_raises, images |-> env.images]

\* a one-page document with a text layer t, which OCR reads as well
TextDoc(t) == Doc(FALSE, <<Page(FALSE, t)>>, OcrEnv(TRUE, FALSE, <<Page(FALSE, t)>>))

\* the document of the entry points that take a text
NoDoc == Doc(FALSE, <<>>, OcrEnv(TRUE, FALSE, <<>>))

ScannedText == "Jane Doe\nScanned page\n"

\* OCR that reads one page
Scanner == OcrEnv(TRUE, FALSE, <<Page(FALSE, ScannedText)>>)

OcrEnvs ==
    {OcrEnv(FALSE, FALSE, <<>>), OcrEnv(TRUE, TRUE, <<>>), OcrEnv(TRUE, FALSE, <<>>),
     OcrEnv(TRUE, FALSE, <<BadPage, Page(FALSE, ScannedText)>>), Scanner}

\* the pages of the documents with several pages: a page that raises, a page
\* without a text layer, a short page, and a page of the minimal length with
\* whitespace around it
PageKinds ==
    {BadPage, Page(FALSE, ""), Page(FALSE, "Jane Q. Doe\n"),
     Page(FALSE, " " \o Fill(RP_MinDirectChars) \o " \n")}

\* the most pages of a document
MaxPages == 2

PageLists == UNION {[1..k -> PageKinds] : k \in 0..MaxPages}

\* one-page documents around the minimal length
ThresholdPages ==
    {<<Page(FALSE, Fill(n))>> : n \in (RP_MinDirectChars - 1)..(RP_MinDirectChars + 1)}

AcquireDocs ==
    {Doc(FALSE, pages, Scanner) : pages \in PageLists}
    \cup {Doc(FALSE, pages, env) : pages \in ThresholdPages \cup {<<>>}, env \in OcrEnvs}
    \cup {Doc(TRUE, <<>>, Scanner)}

Docs == AcquireDocs \cup {TextDoc(t) : t \in InputTexts}

\* resume_parser.py imports pdf2image unconditionally; backend_server.py has no OCR
DocsOf(entry) ==
    IF entry = "ResumeParser" THEN {d \in Docs : d.ocr_available}
    ELSE IF entry = "backend_server" THEN {d \in Docs : d.ocr_available /\ ~d.convert_raises
                                                        /\ Len(d.images) = Len(d.pages)}
    ELSE Docs

Init ==
    /\ impl \in PdfEntryPoints \cup TextEntryPoints
    /\ IF impl \in PdfEntryPoints
       THEN doc \in DocsOf(impl) /\ text_content = ""
       ELSE doc = NoDoc /\ text_content \in InputTexts
    /\ hash_seed \in Seeds
    /\ pc = FirstCall(impl)
    /\ parsed_data = InitialData(impl)
    /\ calls = <<>>
    /\ direct = NoDirect
    /\ status = "running"
    /\ previous = <<>>
    /\ uploads = <<>> /\ files = EmptyDict /\ requests = <<>>
    /\ LimiterIdle

Next ==
    \/ ResumeParserExtractTextFromPdf
    \/ ResumeParserExtractTextWithOcr
    \/ ResumeParserParsePersonalInformation
    \/ ResumeParserParseSummary
    \/ ResumeParserParseExperience
    \/ ResumeParserParseEducation
    \/ ResumeParserParseSkills
    \/ ResumeParserParseProjects
    \/ ResumeParserParseLanguages
    \/ ResumeParserParseCertifications
    \/ ResumeParserCleanAndValidateData
    \/ EnhancedResumeParserExtractTextFromPdf
    \/ EnhancedResumeParserExtractTextWithOcr
    \/ EnhancedResumeParserParsePersonalInformation
    \/ EnhancedResumeParserParseExperience
    \/ EnhancedResumeParserParseEducation
    \/ EnhancedResumeParserParseSkills
    \/ EnhancedResumeParserCleanAndValidateData
    \/ BackendServerExtractTextFromPdf
    \/ ParseResumeText
    \/ ParseLinkedinText
    \/ ParseAgain

Spec == Init /\ [][Next]_vars

(***************************************************************************)
(* Concurrent requests: the handlers of POST /resume/parse_api of the three*)
(* servers. Each request saves its upload in the upload folder, parses the  *)
(* file at that path and removes it; the folder is shared by the requests.  *)
(***************************************************************************)
\* backend_server.py, backend/enhanced_server.py (ResumeParser) and
\* enhanced_backend_server.py (EnhancedResumeParser)
Servers == {"backend_server", "enhanced_server", "enhanced_backend_server"}

\* werkzeug's secure_filename on the names of the model: whitespace becomes "_"
secure_filename(filename) == str_join("_", str_words(filename))

\* the path under which a handler saves an upload: temp_<filename>, or
\* pdf_<second>_<hash of the first 512 bytes>.pdf
UploadPath(server, upload) ==
    IF server = "enhanced_backend_server"
    THEN "pdf_" \o upload.second \o "_" \o upload.file_hash \o ".pdf"
    ELSE "temp_" \o secure_filename(upload.filename)

\* what the libraries make of a path with no file: open and convert_from_path raise
MissingFile == Doc(TRUE, <<>>, OcrEnv(TRUE, TRUE, <<>>))

FileAt(file_path) == IF Has(files, file_path) THEN files[file_path] ELSE MissingFile

\* ResumeParser.parse, from step 3: the extractors and the cleaner on a text
RP_ParseText(text, seed) ==
    IF str_strip(text) = "" THEN RP_InitialData
    ELSE clean_and_validate_data(
             RP_Step("parse_certifications",
             RP_Step("parse_languages",
             RP_Step("parse_projects",
             RP_Step("parse_skills",
             RP_Step("parse_education",
             RP_Step("parse_experience",
             RP_Step("parse_summary",
             RP_Step("parse_personal_information", RP_InitialData, text, seed),
                     text, seed), text, seed), text, seed), text, seed), text, seed),
                     text, seed), text, seed))

\* EnhancedResumeParser.parse, from step 2
ERP_ParseText(text, seed) ==
    clean_and_validate_data(
        Put(Put(Put(Put(EmptyDict, "personal", ERP_personal(text)),
                    "experience", ERP_experience(text)),
                "education", ERP_education(text)),
            "skills", ERP_skills(text, seed)))

ErrorResponse(code) == [success |-> FALSE, code |-> code]

\* the body of the answer 200: the parser servers add the length of the text
SuccessResponse(server, text, data) ==
    IF server = "backend_server" THEN [success |-> TRUE, data |-> data]
    ELSE [success |-> TRUE, data |-> data, text_length |-> Len(text)]

\* backend_server.parse_resume after extract_text_from_pdf: "if text:", then
\* parse_resume_text
BS_AfterDirect(extraction) ==
    IF extraction.none \/ extraction.text = ""
    THEN [next |-> "done", text |-> "", data |-> EmptyDict]
    ELSE [next |-> "remove", text |-> extraction.text,
          data |-> parse_resume_text(extraction.text)]

\* ResumeParser.parse after extract_text_from_pdf
RP_AfterDirect(text, seed) ==
    IF RP_NeedsOcr(text)
    THEN [next |-> "extract_text_with_ocr", text |-> text, data |-> EmptyDict]
    ELSE [next |-> "remove", text |-> text, data |-> RP_ParseText(text, seed)]

\* EnhancedResumeParser.extract_text_from_pdf after the page loop
ERP_AfterDirect(extraction, seed) ==
    IF ~extraction.raised /\ ERP_DirectIsMeaningful(extraction.text)
    THEN [next |-> "remove", text |-> extraction.text,
          data |-> ERP_ParseText(extraction.text, seed)]
    ELSE [next |-> "extract_text_with_ocr", text |-> "", data |-> EmptyDict]

\* the handler has read the file d directly: what it does next ("remove" with
\* the record parsed, the OCR fallback, or the answer 400), and the text
HandlerDirect(server, d, seed) ==
    IF server = "backend_server" THEN BS_AfterDirect(BS_extract_text_from_pdf(d))
    ELSE IF server = "enhanced_server" THEN RP_AfterDirect(RP_extract_text_from_pdf(d), seed)
    ELSE ERP_AfterDirect(ERP_DirectExtraction(d), seed)

\* the rest of parse() after the OCR fallback
AfterOcr(server, ocr_text, seed) ==
    [next |-> "remove", text |-> ocr_text,
     data |-> IF server = "enhanced_server" THEN RP_ParseText(ocr_text, seed)
              ELSE ERP_ParseText(ocr_text, seed)]

\* the parser has run OCR on the file d: the text and the record parsed
HandlerOcr(server, d, text, seed) ==
    AfterOcr(server,
             IF server = "enhanced_server" THEN RP_extract_text_with_ocr(d, text)
             ELSE ERP_extract_text_with_ocr(d),
             seed)

MaxRequests == 2

Requests == 1..MaxRequests

IdleRequest == [pc |-> "save", file_path |-> "", text |-> "", data |-> EmptyDict,
                response |-> <<>>]

\* request r moves on
Advance(r, next, text, data, response) ==
    requests' = [requests EXCEPT ![r] = [pc |-> next, file_path |-> @.file_path,
                                         text |-> text, data |-> data,
                                         response |-> response]]

\* request r has read its file: it goes on, or answers 400
AdvanceRead(r, read) ==
    Advance(r, read.next, read.text, read.data,
            IF read.next = "done" THEN <<ErrorResponse(400)>> ELSE <<>>)

\* file.save(file_path), in validate_and_save_file or in the handler
RequestSaveFile(r) ==
    /\ impl \in Servers /\ requests[r].pc = "save"
    /\ LET file_path == UploadPath(impl, uploads[r])
       IN  /\ files' = Put(files, file_path, uploads[r].content)
           /\ requests' = [requests EXCEPT ![r].file_path = file_path,
                                           ![r].pc = IF impl = "enhanced_server"
                                                     THEN "extract_text_from_pdf"
                                                     ELSE "getsize"]
    /\ UNCHANGED <<limiter, impl, doc, hash_seed, pc, text_content, parsed_data, calls, direct,
                   status, previous, uploads>>

\* os.path.exists and os.path.getsize on the saved file: the handler answers
\* 500 when the file is not there
RequestGetSize(r) ==
    /\ impl \in Servers /\ requests[r].pc = "getsize"
    /\ IF Has(files, requests[r].file_path)
       THEN Advance(r, "extract_text_from_pdf", "", EmptyDict, <<>>)
       ELSE Advance(r, "done", "", EmptyDict, <<ErrorResponse(500)>>)
    /\ UNCHANGED <<limiter, impl, doc, hash_seed, pc, text_content, parsed_data, calls, direct,
                   status, previous, uploads, files>>

\* the direct extraction opens the file at the path of the request
RequestExtractText(r) ==
    /\ impl \in Servers /\ requests[r].pc = "extract_text_from_pdf"
    /\ AdvanceRead(r, HandlerDirect(impl, FileAt(requests[r].file_path), hash_seed))
    /\ UNCHANGED <<limiter, impl, doc, hash_seed, pc, text_content, parsed_data, calls, direct,
                   status, previous, uploads, files>>

\* convert_from_path opens the file at the path of the request once more
RequestOcr(r) ==
    /\ impl \in Servers /\ requests[r].pc = "extract_text_with_ocr"
    /\ AdvanceRead(r, HandlerOcr(impl, FileAt(requests[r].file_path), requests[r].text,
                                 hash_seed))
    /\ UNCHANGED <<limiter, impl, doc, hash_seed, pc, text_content, parsed_data, calls, direct,
                   status, previous, uploads, files>>

\* os.remove(file_path) and the answer: backend_server removes the file if it
\* exists; in the other two os.remove raises when the file is gone, and the
\* handler answers 500
RequestRemoveFile(r) ==
    /\ impl \in Servers /\ requests[r].pc = "remove"
    /\ files' = Del(files, requests[r].file_path)
    /\ IF impl = "backend_server" \/ Has(files, requests[r].file_path)
       THEN Advance(r, "done", requests[r].text, requests[r].data,
                    <<SuccessResponse(impl, requests[r].text, requests[r].data)>>)
       ELSE Advance(r, "done", requests[r].text, requests[r].data, <<ErrorResponse(500)>>)
    /\ UNCHANGED <<limiter, impl, doc, hash_seed, pc, text_content, parsed_data, calls, direct,
                   status, previous, uploads>>

\* an upload that is not a readable PDF: PdfReader and convert_from_path raise
CorruptPdf == Doc(TRUE, <<>>, OcrEnv(TRUE, TRUE, <<>>))

\* the uploads of the model: two documents and an unreadable file, under names
\* that secure_filename maps to the same or to different names, in the same
\* second or not
UploadDocs == {TextDoc("Jane Doe\nPortland office\n"),
               TextDoc("Resume\nJane Q. Doe\n(555) 123-4567\n"), CorruptPdf}

FileHashOf(content) == IF content = TextDoc("Jane Doe\nPortland office\n") THEN "0a1b2c3d"
                       ELSE IF content = CorruptPdf THEN "9c8d7e6f"
                       ELSE "4e5f6a7b"

Upload(filename, content, second) ==
    [filename |-> filename, content |-> content, file_hash |-> FileHashOf(content),
     second |-> second]

FirstUpload == Upload("my cv.pdf", TextDoc("Jane Doe\nPortland office\n"), "1700000000")

OtherUploads ==
    {Upload(filename, content, second) :
        filename \in {"my cv.pdf", "my_cv.pdf", "cv.pdf"}, content \in UploadDocs,
        second \in {"1700000000", "1700000001"}}

InitRequests ==
    /\ impl \in Servers
    /\ uploads \in {u \in [Requests -> OtherUploads \cup {FirstUpload}] :
                        u[1] = FirstUpload}
    /\ files = EmptyDict
    /\ requests = [r \in Requests |-> IdleRequest]
    /\ hash_seed = 0
    /\ doc = NoDoc /\ text_content = "" /\ parsed_data = EmptyDict /\ calls = <<>>
    /\ direct = NoDirect /\ pc = "done" /\ status = "serving" /\ previous = <<>>
    /\ LimiterIdle

NextRequests ==
    \/ \E r \in Requests : RequestSaveFile(r)
    \/ \E r \in Requests : RequestGetSize(r)
    \/ \E r \in Requests : RequestExtractText(r)
    \/ \E r \in Requests : RequestOcr(r)
    \/ \E r \in Requests : RequestRemoveFile(r)

SpecRequests == InitRequests /\ [][NextRequests]_vars

(***************************************************************************)
(* The rate limiter of enhanced_backend_server: the decorator rate_limit    *)
(* around parse_resume. The server threads share the dictionary rate_limits.*)
(***************************************************************************)
\* @rate_limit(max_requests=5, window_seconds=60)
max_requests == 5

window_seconds == 60

MaxArrivals == 6

TickSeconds == 30

MaxClock == 60

\* what the rate limiter leaves alone
serving ==
    <<impl, doc, hash_seed, pc, text_content, parsed_data, calls, direct, status, previous,
      uploads, files, requests>>

\* [req_time for req_time in rate_limits[client_ip] if now - req_time < window_seconds]
RecentRequests(times, now) ==
    SelectSeq(times, LAMBDA req_time : now - req_time < window_seconds)

SetThread(t, next, kept) == [threads EXCEPT ![t].pc = next, ![t].kept = kept]

\* a request of a client arrives at a free thread: client_ip and now are read
RateLimitArrive(t, client_ip) ==
    /\ threads[t].pc = "idle" /\ arrivals < MaxArrivals
    /\ threads' = [threads EXCEPT ![t] = [pc |-> "clean", client_ip |-> client_ip,
                                          now |-> clock, kept |-> <<>>]]
    /\ arrivals' = arrivals + 1
    /\ UNCHANGED <<serving, rate_limits, clock, admitted>>

\* the list comprehension over the recorded times of the client
RateLimitClean(t) ==
    /\ threads[t].pc = "clean"
    /\ threads' = SetThread(t, "assign",
                            RecentRequests(rate_limits[threads[t].client_ip], threads[t].now))
    /\ UNCHANGED <<serving, rate_limits, clock, admitted, arrivals>>

\* rate_limits[client_ip] = the list the comprehension built
RateLimitAssign(t) ==
    /\ threads[t].pc = "assign"
    /\ rate_limits' = [rate_limits EXCEPT ![threads[t].client_ip] = threads[t].kept]
    /\ threads' = SetThread(t, "check", <<>>)
    /\ UNCHANGED <<serving, clock, admitted, arrivals>>

\* len(rate_limits[client_ip]) >= max_requests: the answer 429, and the thread is free
RateLimitCheck(t) ==
    /\ threads[t].pc = "check"
    /\ threads' = IF Len(rate_limits[threads[t].client_ip]) >= max_requests
                  THEN [threads EXCEPT ![t] = IdleThread]
                  ELSE SetThread(t, "append", <<>>)
    /\ UNCHANGED <<serving, rate_limits, clock, admitted, arrivals>>

\* rate_limits[client_ip].append(now); return f(*args, **kwargs)
RateLimitAppend(t) ==
    /\ threads[t].pc = "append"
    /\ rate_limits' = [rate_limits EXCEPT ![threads[t].client_ip] = Append(@, threads[t].now)]
    /\ admitted' = [admitted EXCEPT ![threads[t].client_ip] = Append(@, threads[t].now)]
    /\ threads' = [threads EXCEPT ![t] = IdleThread]
    /\ UNCHANGED <<serving, clock, arrivals>>

\* time passes
Tick ==
    /\ clock < MaxClock
    /\ clock' = clock + TickSeconds
    /\ UNCHANGED <<serving, rate_limits, threads, admitted, arrivals>>

NextRateLimit ==
    \/ \E t \in Threads, client_ip \in Clients : RateLimitArrive(t, client_ip)
    \/ \E t \in Threads : RateLimitClean(t)
    \/ \E t \in Threads : RateLimitAssign(t)
    \/ \E t \in Threads : RateLimitCheck(t)
    \/ \E t \in Threads : RateLimitAppend(t)
    \/ Tick

InitRateLimit ==
    /\ impl = "enhanced_backend_server"
    /\ uploads = <<>> /\ files = EmptyDict /\ requests = <<>>
    /\ hash_seed = 0
    /\ doc = NoDoc /\ text_content = "" /\ parsed_data = EmptyDict /\ calls = <<>>
    /\ direct = NoDirect /\ pc = "done" /\ status = "serving" /\ previous = <<>>
    /\ LimiterIdle

SpecRateLimit == InitRateLimit /\ [][NextRateLimit]_vars

(***************************************************************************)
(* Properties of the parsers                                               *)
(***************************************************************************)
\* the parse has returned its record
Returned == pc = "done" /\ status = "returned"

OcrFallback == "extract_text_with_ocr"

\* the methods that extract fields from the text
FieldExtractors ==
    {"parse_personal_information", "parse_summary", "parse_experience", "parse_education",
     "parse_skills", "parse_projects", "parse_languages", "parse_certifications",
     "clean_and_validate_data", "parse_resume_text"}

\* the direct extraction has run and gave at least / fewer than 100 characters
\* after trimming (a direct extraction that failed gave none)
DirectIsLong == direct.done /\ ~direct.failed /\ Len(str_strip(direct.text)) >= 100

DirectIsShort == direct.done /\ (direct.failed \/ Len(str_strip(direct.text)) < 100)

\* C1: when the direct extraction of a document yields at least 100
\* characters after trimming (exactly 100 included), extract_text_with_ocr
\* is never invoked during that parse.
C1_NoOcrOnLongText == DirectIsLong => ~Called(OcrFallback)

\* C2: when the direct extraction yields fewer than 100 characters after
\* trimming (no pages, pages without text, a failed extraction), ResumeParser
\* and EnhancedResumeParser call extract_text_with_ocr before any field
\* extractor runs and before the parse returns.
C2_OcrBeforeExtractors ==
    (impl \in {"ResumeParser", "EnhancedResumeParser"} /\ DirectIsShort) =>
        /\ (pc = "done" \/ pc \in FieldExtractors) => Called(OcrFallback)
        /\ \A i \in 1..Len(calls) :
               calls[i] \in FieldExtractors => \E j \in 1..(i - 1) : calls[j] = OcrFallback

\* a parse of a document without text that went through OCR and the extractors
C2_Witness ==
    /\ impl = "ResumeParser" /\ Returned /\ DirectIsShort /\ doc.pages = <<>>
    /\ Called(OcrFallback) /\ Called("parse_personal_information")

\* C3: in every record ResumeParser.parse returns, experience has at most 5
\* entries, education 3, skills 25, technical_skills 15, projects 5 and
\* certifications 5.
C3_Caps ==
    (impl = "ResumeParser" /\ Returned) =>
        /\ Len(parsed_data.experience) <= 5
        /\ Len(parsed_data.education) <= 3
        /\ Len(parsed_data.skills) <= 25
        /\ Len(parsed_data.technical_skills) <= 15
        /\ Len(parsed_data.projects) <= 5
        /\ Len(parsed_data.certifications) <= 5

\* a returned record with every list at its cap, of a text that has more
\* entries than the cap in every section
C3_Witness ==
    /\ impl = "ResumeParser" /\ Returned
    /\ Len(parsed_data.experience) = 5 /\ Len(parsed_data.education) = 3
    /\ Len(parsed_data.skills) = 25 /\ Len(parsed_data.technical_skills) = 15
    /\ Len(parsed_data.projects) = 5 /\ Len(parsed_data.certifications) = 5
    /\ Len(RP_AllExperience(text_content)) > 5
    /\ Len(RP_AllEducation(text_content)) > 3
    /\ Len(RP_AllProjects(text_content)) > 5
    /\ Len(RP_AllCertifications(text_content)) > 5
    /\ Len(RP_SkillSets(text_content).all_skills) > 25
    /\ Len(RP_SkillSets(text_content).technical_skills) > 15

\* C4: parsing the same input twice yields identical records, skills and
\* technical_skills with their order and their survivors of the cap included.
C4_SameRecordTwice == (Returned /\ previous # <<>>) => parsed_data = previous[1]

\* the names of the sections other than Education
OtherSections ==
    <<"experience", "employment", "work history", "skills", "projects", "certifications",
      "languages", "summary">>

\* line k lies under an Education header: a line before it names the
\* section, and no line from there to k names another section
UnderEducation(lines, k) ==
    \E h \in 1..(k - 1) :
        /\ Contains(str_lower(lines[h]), "education")
        /\ \A j \in (h + 1)..k : ~AnyIn(OtherSections, str_lower(lines[j]))

JobTitleKeywords ==
    <<"manager", "engineer", "developer", "analyst", "coordinator", "specialist", "director",
      "associate", "consultant", "architect">>

\* C5: a line that matches a job-title keyword and lies under an Education
\* header (after the header, before any terminator) never produces an
\* experience entry, wherever the Education section stands in the text.
C5_NoExperienceFromEducation ==
    Returned =>
        LET lines == NonEmptyLines(text_content)
        IN  \A k \in 1..Len(lines) :
                (UnderEducation(lines, k) /\ AnyIn(JobTitleKeywords, str_lower(lines[k]))) =>
                    \A i \in 1..Len(parsed_data.experience) :
                        LET entry == parsed_data.experience[i]
                        IN  ~Has(entry, "title") \/ entry.title # lines[k]

\* C6: a skill the text mentions in several letter cases gives one entry of
\* skills: in the records of ResumeParser and EnhancedResumeParser no two
\* entries of skills differ only in case.
C6_OneEntryPerSkill ==
    (Returned /\ impl \in {"ResumeParser", "EnhancedResumeParser"}) =>
        \A i, j \in 1..Len(parsed_data.skills) :
            str_lower(parsed_data.skills[i]) = str_lower(parsed_data.skills[j]) => i = j

\* the fields of a record that hold lists
ListFields ==
    {"experience", "education", "skills", "technical_skills", "projects", "languages",
     "certifications"}

\* C7: when the input text is the empty string, the record returned has
\* every list field empty and personal = {}.
C7_EmptyTextEmptyRecord ==
    (Returned /\ text_content = "") =>
        /\ {"personal", "experience", "education", "skills"} \subseteq DOMAIN parsed_data
        /\ parsed_data.personal = EmptyDict
        /\ \A k \in ListFields \cap DOMAIN parsed_data : parsed_data[k] = <<>>

\* the extractors of EnhancedResumeParser have run on the empty text
C7_Witness ==
    /\ impl = "EnhancedResumeParser" /\ Returned /\ text_content = ""
    /\ Called("parse_personal_information") /\ Called("parse_skills")
    /\ parsed_data.skills = <<>>

\* C8: in every record returned, personal.email is absent or matches the
\* strict e-mail grammar as a whole.
C8_EmailStrictOrAbsent ==
    Returned =>
        (Has(parsed_data.personal, "email") =>
            re_match(strict_email_pattern, parsed_data.personal.email, FALSE))

\* a candidate for the name: no e-mail address or phone number in the line,
\* at least 2 tokens, under 50 characters
IsNameCandidate(line) ==
    /\ ~re_found(email_pattern, line, FALSE)
    /\ ~re_found(RP_name_phone_pattern, line, FALSE)
    /\ Len(str_words(line)) >= 2
    /\ Len(line) < 50

\* the first candidate among the first 5 non-empty lines, or <<>>
NameLine(text) ==
    Take(SelectSeq(Take(NonEmptyLines(text), 5), IsNameCandidate), 1)

\* C9: personal.full_name is the first line, among the first 5 non-empty
\* lines, without an e-mail address or a phone number, of at least 2 tokens
\* and under 50 characters; first_name is its first token and last_name its
\* last: "Jane Q. Doe" gives "Jane Q. Doe", "Jane", "Doe".
C9_NameHeuristic ==
    (Returned /\ impl # "parse_linkedin_text" /\ NameLine(text_content) # <<>>) =>
        LET name == NameLine(text_content)[1]
            words == str_words(name)
            personal == parsed_data.personal
        IN  /\ {"full_name", "first_name", "last_name"} \subseteq DOMAIN personal
            /\ personal.full_name = name
            /\ personal.first_name = words[1]
            /\ personal.last_name = words[Len(words)]

\* a page of the document has text and can be read
SomePageHasText(d) ==
    \E i \in 1..Len(d.pages) : ~d.pages[i].raises /\ str_strip(d.pages[i].text) # ""

\* C10: a page whose extraction raises is skipped and the text of the other
\* pages is kept: the direct extraction does not fail, and its text is the
\* text of the pages that did not raise, joined by newlines in page order.
C10_FailingPageSkipped ==
    (direct.done /\ ~doc.open_raises /\ AnyRaises(doc.pages) /\ SomePageHasText(doc)) =>
        /\ ~direct.failed
        /\ str_strip(direct.text)
             = str_strip(str_join("\n", PageTexts(doc.pages,
                   LAMBDA page : ~page.raises /\ str_strip(page.text) # "")))

\* the lines of the pages and of the images of the document that can be read
DocumentLines(d) ==
    UNION {Range(NonEmptyLines(p.text)) : p \in {q \in Range(d.pages) \cup Range(d.images) : ~q.raises}}

\* the rasterizer is missing or fails / an image fails in the OCR engine
RasterizerFails(d) == ~d.ocr_available \/ d.convert_raises

OcrFails(d) == RasterizerFails(d) \/ AnyRaises(d.images)

\* C11: when the OCR engine or the PDF rasterizer is unavailable or fails,
\* the text OCR contributes is empty: the document text is what it was, and
\* no error message or placeholder is stored as the document text.
C11_NoPlaceholderText ==
    (impl \in PdfEntryPoints /\ Called(OcrFallback) /\ OcrFails(doc)) =>
        /\ Range(NonEmptyLines(text_content)) \subseteq DocumentLines(doc)
        /\ RasterizerFails(doc) => text_content \in {"", direct.text}

\* the OCR of the document runs and reads no text
OcrReadsNothing(d) ==
    /\ ~OcrFails(d)
    /\ \A i \in 1..Len(d.images) : str_strip(d.images[i].text) = ""

\* C12: when the direct extraction and the OCR fallback both produce no
\* text, the text is the empty string, the parse returns the empty record
\* and the request is answered as a success, not as an error.
C12_NoTextIsSuccess ==
    (/\ impl \in PdfEntryPoints /\ pc = "done"
     /\ ~direct.failed /\ str_strip(direct.text) = "" /\ OcrReadsNothing(doc)) =>
        /\ status = "returned"
        /\ str_strip(text_content) = ""
        /\ parsed_data \in {EmptyDict, RP_InitialData} \/
             /\ parsed_data.personal = EmptyDict
             /\ \A k \in ListFields \cap DOMAIN parsed_data : parsed_data[k] = <<>>

\* the lines of the pages (or images) of ps that can be read
ReadableLines(ps) ==
    UNION {Range(NonEmptyLines(ps[i].text)) : i \in {j \in 1..Len(ps) : ~ps[j].raises}}

\* the extractors and the cleaner that parse() of a parser class calls
StagesOf(entry) ==
    IF entry = "ResumeParser"
    THEN {"parse_personal_information", "parse_summary", "parse_experience",
          "parse_education", "parse_skills", "parse_projects", "parse_languages",
          "parse_certifications", "clean_and_validate_data"}
    ELSE {"parse_personal_information", "parse_experience", "parse_education",
          "parse_skills", "clean_and_validate_data"}

\* C13: a stage that raises (the extraction of a page, an OCR step) gives an
\* empty result for that stage only: the pages and images that can be read
\* still contribute their text, the remaining stages run, and parse()
\* returns a record instead of aborting.
C13_StageFailureIsLocal ==
    impl \in {"ResumeParser", "EnhancedResumeParser"} =>
        /\ pc = "done" => status = "returned"
        /\ (direct.done /\ ~doc.open_raises /\ AnyRaises(doc.pages)) =>
               ReadableLines(doc.pages) \subseteq Range(NonEmptyLines(direct.text))
        /\ (Called(OcrFallback) /\ ~RasterizerFails(doc) /\ AnyRaises(doc.images)) =>
               ReadableLines(doc.images) \subseteq Range(NonEmptyLines(text_content))
        /\ (pc = "done" /\ str_strip(text_content) # "") =>
               \A stage \in StagesOf(impl) : Called(stage)

\* the experience list as parse_experience of a parser class leaves it
ExperienceBeforeCleaning ==
    IF impl = "ResumeParser" THEN RP_experience(text_content)
    ELSE ERP_experience(text_content)

HasTitleOrCompany(entry) ==
    \E k \in {"title", "company"} \cap DOMAIN entry : entry[k] # ""

\* the parse of a parser class has returned and its cleaner has run
Cleaned ==
    /\ impl \in {"ResumeParser", "EnhancedResumeParser"} /\ Returned
    /\ Called("clean_and_validate_data")

\* C14: in every record returned no experience entry has both title and
\* company empty or absent, and the entries with a non-empty title or company
\* before cleaning are all kept, in their original order.
C14_CleanedExperience ==
    /\ (Returned /\ Has(parsed_data, "experience")) =>
           \A i \in 1..Len(parsed_data.experience) :
               HasTitleOrCompany(parsed_data.experience[i])
    /\ Cleaned =>
           parsed_data.experience = SelectSeq(ExperienceBeforeCleaning, HasTitleOrCompany)

\* the cleaner has dropped an entry that had dates only and kept the next
C14_Witness ==
    /\ Cleaned /\ NonEmptyLines(text_content) = NonEmptyLines(DatedJobText)
    /\ Len(parsed_data.experience) = 1
    /\ Len(ExperienceBeforeCleaning) = 2
    /\ ~HasTitleOrCompany(ExperienceBeforeCleaning[1])

\* the order in which parse() of a parser class calls its extractors and its cleaner
StageOrder(entry) ==
    IF entry = "ResumeParser"
    THEN <<"parse_personal_information", "parse_summary", "parse_experience",
           "parse_education", "parse_skills", "parse_projects", "parse_languages",
           "parse_certifications", "clean_and_validate_data">>
    ELSE <<"parse_personal_information", "parse_experience", "parse_education",
           "parse_skills", "clean_and_validate_data">>

\* the extractors and the cleaner called so far in this parse, in call order
StagesCalled == SelectSeq(calls, LAMBDA method : method \in StagesOf(impl))

\* C15 as stated: in each parse call every field extractor runs exactly once,
\* in a fixed order, and the cleaner runs exactly once, after all the
\* extractors and before the record is returned.
C15_EveryStageOnce ==
    (impl \in {"ResumeParser", "EnhancedResumeParser"} /\ Returned) =>
        StagesCalled = StageOrder(impl)

\* C15, amended: the stages called so far are always a prefix of the fixed
\* order (each at most once, no extractor after the cleaner); when parse()
\* returns, all of them have run, except that ResumeParser runs none of them
\* when the text of the document is blank.
C15_StagesInOrder ==
    impl \in {"ResumeParser", "EnhancedResumeParser"} =>
        /\ StagesCalled = Take(StageOrder(impl), Len(StagesCalled))
        /\ Returned =>
               IF impl = "ResumeParser" /\ str_strip(text_content) = ""
               THEN StagesCalled = <<>>
               ELSE StagesCalled = StageOrder(impl)

\* a parse of ResumeParser has returned after its eight extractors and its cleaner
C15_Witness ==
    /\ impl = "ResumeParser" /\ Returned /\ str_strip(text_content) # ""
    /\ StagesCalled = StageOrder("ResumeParser")
    /\ calls[Len(calls)] = "clean_and_validate_data"

\* the extractors of ResumeParser, in the order of parse()
RP_Extractors == Take(StageOrder("ResumeParser"), 8)

\* the top-level fields that an extractor of ResumeParser owns
OwnFields(method) ==
    CASE method = "parse_personal_information" -> {"personal"}
      [] method = "parse_summary" -> {"summary"}
      [] method = "parse_experience" -> {"experience"}
      [] method = "parse_education" -> {"education"}
      [] method = "parse_skills" -> {"skills", "technical_skills"}
      [] method = "parse_projects" -> {"projects"}
      [] method = "parse_languages" -> {"languages"}
      [] method = "parse_certifications" -> {"certifications"}

RECURSIVE RunExtractors(_, _, _, _)
\* the extractors of the list run on the record, the last of the list first
RunExtractors(methods, data, text, seed) ==
    IF methods = <<>> THEN data
    ELSE RunExtractors(Take(methods, Len(methods) - 1),
                       RP_Step(methods[Len(methods)], data, text, seed), text, seed)

\* an extractor of ResumeParser runs in this step
ExtractorStep(method) == At("ResumeParser", method) /\ pc' # pc

\* when all the extractors have run, the record is the one that they give
\* when they run in the opposite order
SameInOppositeOrder ==
    (impl = "ResumeParser" /\ pc = "clean_and_validate_data") =>
        parsed_data = RunExtractors(RP_Extractors, RP_InitialData, text_content, hash_seed)

\* C16: an extractor writes only the top-level fields it owns, so every
\* other field of the record is unchanged by its step, and the record the
\* cleaner receives is the same when the extractors run in another order.
C16_ExtractorFrame ==
    /\ [][\A method \in Range(RP_Extractors) :
            ExtractorStep(method) =>
                /\ DOMAIN parsed_data' = DOMAIN parsed_data
                /\ \A k \in DOMAIN parsed_data \ OwnFields(method) :
                       parsed_data'[k] = parsed_data[k]]_vars
    /\ []SameInOppositeOrder

\* parse_skills has run on a resume with a name and skills: it has filled
\* both of its lists and the fields of the earlier extractors are still there
C16_Witness ==
    /\ impl = "ResumeParser" /\ pc = "parse_projects"
    /\ parsed_data.skills # <<>> /\ parsed_data.technical_skills # <<>>
    /\ Has(parsed_data.personal, "full_name") /\ parsed_data.projects = <<>>

\* the answer after the reads of a request: 400, or 200 with the record
AnswerAfter(server, read) ==
    IF read.next = "done" THEN ErrorResponse(400)
    ELSE SuccessResponse(server, read.text, read.data)

\* the direct read of the own file, followed by the OCR of the own file when
\* the parser falls back to it
AloneAfterDirect(server, content, direct_read, seed) ==
    IF direct_read.next = "extract_text_with_ocr"
    THEN AnswerAfter(server, HandlerOcr(server, content, direct_read.text, seed))
    ELSE AnswerAfter(server, direct_read)

\* the answer to a request that is served alone: both reads of the parser see
\* the file that the request uploaded
AloneResponse(server, content, seed) ==
    AloneAfterDirect(server, content, HandlerDirect(server, content, seed), seed)

\* C17: under every interleaving of concurrent requests to /resume/parse_api,
\* requests that upload files of the same name included, the parse of a
\* request reads its own uploaded file only and the response depends on that
\* file only: it is the response the request gets when it is served alone.
C17_ResponseFromOwnFile ==
    \A r \in DOMAIN requests :
        requests[r].pc = "done" =>
            requests[r].response = <<AloneResponse(impl, uploads[r].content, hash_seed)>>

\* the labels of parse_linkedin_text and the field of the result of each
PersonalLabels ==
    {<<"Name:", "full_name">>, <<"Headline:", "headline">>, <<"Location:", "location">>,
     <<"Email:", "email">>, <<"Phone:", "phone">>, <<"LinkedIn:", "linkedin">>}

JobLabels ==
    {<<"Title:", "title">>, <<"Company:", "company">>, <<"Dates:", "dates">>,
     <<"Description:", "description">>}

\* the non-empty values that the lines of the text give under a label
LabelledValues(text, label) ==
    {value \in {str_strip(SubSeq(line, Len(label) + 1, Len(line))) :
                    line \in {l \in Range(NonEmptyLines(text)) : str_startswith(l, label)}} :
        value # ""}

\* C18: in parse_linkedin_text, whenever a labelled line (Name:, Email:,
\* Phone:, Title:, Company:, Dates:, ...) with a non-empty value is present,
\* the corresponding field of the result equals the labelled value, whatever
\* lines the heuristics match before or after it.
C18_LabelledValueWins ==
    (impl = "parse_linkedin_text" /\ Returned) =>
        /\ \A label \in PersonalLabels :
               LabelledValues(text_content, label[1]) # {} =>
                   /\ Has(parsed_data.personal, label[2])
                   /\ parsed_data.personal[label[2]] \in LabelledValues(text_content, label[1])
        /\ \A label \in JobLabels :
               \A value \in LabelledValues(text_content, label[1]) :
                   \E i \in 1..Len(parsed_data.experience) :
                       parsed_data.experience[i][label[2]] = value

\* the first line from position from on that has a keyword of hits and none
\* of skips, or the position after the last line
FirstLine(lines, from, hits, skips) ==
    LET found == {i \in from..Len(lines) :
                      /\ AnyIn(hits, str_lower(lines[i]))
                      /\ ~AnyIn(skips, str_lower(lines[i]))}
    IN  IF found = {} THEN Len(lines) + 1 ELSE CHOOSE i \in found : \A j \in found : i <= j

\* the lines of a section: after the first line with a start keyword, up to
\* the first line after it with a terminator keyword
SectionLines(lines, starts, terminators) ==
    LET first == FirstLine(lines, 1, starts, <<>>)
    IN  (first + 1)..(FirstLine(lines, first + 1, terminators, starts) - 1)

SkillsSectionLines(lines) ==
    SectionLines(lines, <<"skills", "technologies", "tools", "technical skills">>,
                 <<"experience", "education", "projects", "languages">>)

ExperienceSectionLines(lines) ==
    SectionLines(lines, <<"experience", "employment", "work history">>,
                 <<"education", "skills", "projects">>)

\* a skill found anywhere in the text by the vocabulary scan
IsVocabularySkill(skill) ==
    \E v \in Range(RP_tech_skills_list) \cup Range(RP_soft_skills_list) : str_title(v) = skill

\* C19: the lines that contribute to a section extractor of ResumeParser
\* form one contiguous range: once a terminator line has ended the section,
\* no later line contributes, even if a start keyword appears again. Every
\* skill that is not a vocabulary hit is a token of a line of the skills
\* range, and every job title is a line of the experience range.
C19_ContiguousSection ==
    (impl = "ResumeParser" /\ Returned) =>
        LET lines == NonEmptyLines(text_content)
        IN  /\ \A k \in 1..Len(parsed_data.skills) :
                   \/ \E i \in SkillsSectionLines(lines) :
                          parsed_data.skills[k]
                              \in Range(MapStrip(str_split(lines[i], RP_skill_delimiters)))
                   \/ IsVocabularySkill(parsed_data.skills[k])
            /\ \A k \in 1..Len(parsed_data.experience) :
                   \E i \in ExperienceSectionLines(lines) :
                       parsed_data.experience[k].title = lines[i]

\* the record that an entry point returns for a text
RecordOf(entry, text, seed) ==
    IF entry = "ResumeParser" THEN RP_ParseText(text, seed)
    ELSE IF entry = "EnhancedResumeParser" THEN ERP_ParseText(text, seed)
    ELSE parse_linkedin_text(text, seed)

SameSections(record, other) ==
    record.experience = other.experience /\ record.education = other.education

\* C20: the segmentation does not depend on the order of the sections: a
\* document with an Experience block and an Education block gives the same
\* experience entries and the same education entries whichever block is first.
C20_SectionOrderIrrelevant ==
    (/\ impl \in {"ResumeParser", "EnhancedResumeParser", "parse_linkedin_text"}
     /\ Returned
     /\ NonEmptyLines(text_content) = NonEmptyLines(ExperienceBlock \o EducationBlock)) =>
        SameSections(parsed_data,
                     RecordOf(impl, EducationBlock \o ExperienceBlock, hash_seed))


\* the experience section as each parser class delimits it
ParserExperienceSection(entry, lines) ==
    SectionLines(lines,
                 IF entry = "ResumeParser" THEN <<"experience", "employment", "work history">>
                 ELSE <<"experience", "employment", "work history", "professional">>,
                 <<"education", "skills", "projects">>)

IsJobTitleLine(entry, line) ==
    IF entry = "ResumeParser" THEN RP_IsJobTitleLine(line)
    ELSE re_found(ERP_job_title_pattern, line, TRUE)

\* the job-title lines of the experience section, stripped, in text order
JobTitleLines(entry, lines) ==
    LET section == ParserExperienceSection(entry, lines)
        at == SelectSeq([i \in 1..Len(lines) |-> i],
                        LAMBDA i : i \in section /\ IsJobTitleLine(entry, lines[i]))
    IN  [k \in 1..Len(at) |-> str_strip(lines[at[k]])]

TitlesOf(experience) ==
    [k \in 1..Len(experience) |->
        IF Has(experience[k], "title") THEN experience[k].title ELSE ""]

\* C21: in the record returned by a parser class the experience list holds
\* one entry per job-title line of the experience section, in text order,
\* none lost and none duplicated, up to the cap of five entries.
C21_OneEntryPerTitleLine ==
    (/\ impl \in {"ResumeParser", "EnhancedResumeParser"} /\ Returned
     /\ Has(parsed_data, "experience")) =>
        TitlesOf(parsed_data.experience)
            = Take(JobTitleLines(impl, NonEmptyLines(text_content)), RP_MaxExperience)


\* the experience list a parser class has collected after the first i lines
ExperienceAfter(entry, lines, i) ==
    IF entry = "ResumeParser"
    THEN RP_ExperienceLoop(Take(lines, i), 1, FALSE, EmptyDict, <<>>)
    ELSE ERP_ExperienceLoop(Take(lines, i), 1, FALSE, EmptyDict, <<>>)

WriteOnceFields == {"company", "dates", "start_date", "end_date"}

\* line i + 1 of the experience section continues the entry open after line i
\* and leaves the company and the dates that entry had
KeepsSetFields(entry, lines, i) ==
    LET before == ExperienceAfter(entry, lines, i)
        after == ExperienceAfter(entry, lines, i + 1)
    IN  (Len(before) > 0 /\ Len(after) = Len(before)) =>
            \A f \in WriteOnceFields \cap DOMAIN before[Len(before)] :
                before[Len(before)][f] # "" =>
                    after[Len(after)][f] = before[Len(before)][f]

\* C22: the company and the dates of an open experience entry are filled only
\* while unset; a later line of the same entry never changes them.
C22_WriteOnce ==
    (impl \in {"ResumeParser", "EnhancedResumeParser"} /\ Returned) =>
        LET lines == NonEmptyLines(text_content)
            section == ParserExperienceSection(impl, lines)
        IN  \A i \in section : (i + 1) \in section => KeepsSetFields(impl, lines, i)


\* a date token: a month name with a year, or a year
DateToken == Alt(<<Cat(<<WB, OneOf(month_names), Plus(Space), Year, WB>>), Cat(<<WB, Year, WB>>)>>)

RECURSIVE DistinctTokens(_, _)
DistinctTokens(tokens, seen) ==
    IF tokens = <<>> THEN <<>>
    ELSE IF Head(tokens) \in seen THEN DistinctTokens(Tail(tokens), seen)
    ELSE <<Head(tokens)>> \o DistinctTokens(Tail(tokens), seen \cup {Head(tokens)})

\* the distinct date tokens of a line, in text order
DateTokens(line) == DistinctTokens(re_findall(DateToken, line, TRUE), {})

\* the lines parse_experience of EnhancedResumeParser hands to extract_dates_from_string
DateLines(lines) ==
    {i \in ParserExperienceSection("EnhancedResumeParser", lines) :
        /\ ~re_found(ERP_company_pattern, lines[i], TRUE)
        /\ ~re_found(ERP_job_title_pattern, lines[i], TRUE)
        /\ re_found(year_pattern, lines[i], FALSE)}

\* C23: extract_dates_from_string sets start_date to the first and end_date to
\* the second distinct date token of the line; with one distinct token only
\* start_date is set; with none both stay unset.
C23_DatesFromDistinctTokens ==
    (impl = "EnhancedResumeParser" /\ Called("parse_experience")) =>
        LET lines == NonEmptyLines(text_content)
        IN  \A i \in DateLines(lines) :
                LET tokens == DateTokens(lines[i])
                    record == extract_dates_from_string(lines[i], EmptyDict)
                IN  /\ Len(tokens) >= 2 =>
                        /\ Has(record, "start_date") /\ record.start_date = tokens[1]
                        /\ Has(record, "end_date") /\ record.end_date = tokens[2]
                    /\ Len(tokens) = 1 =>
                        /\ Has(record, "start_date") /\ record.start_date = tokens[1]
                        /\ ~Has(record, "end_date")
                    /\ Len(tokens) = 0 => record = EmptyDict


WorkIndicators(entry) ==
    IF entry = "ResumeParser" THEN RP_work_indicators ELSE ERP_work_indicators

\* the lines that name a university or a college and no work role, stripped,
\* in text order
InstitutionLines(entry, lines) ==
    SelectSeq([i \in 1..Len(lines) |-> str_strip(lines[i])],
              LAMBDA line : /\ AnyIn(<<"university", "college">>, str_lower(line))
                            /\ ~AnyIn(WorkIndicators(entry), str_lower(line)))

SchoolsOf(education) ==
    [k \in 1..Len(education) |->
        IF Has(education[k], "school") THEN education[k].school ELSE ""]

\* C24: every line that contains "university" or "college" and no work-role
\* keyword yields an education entry, up to the cap of three, wherever it
\* stands: before an Education header, inside the section or after its end.
C24_InstitutionAnywhere ==
    (/\ impl \in {"ResumeParser", "EnhancedResumeParser"} /\ Returned
     /\ Has(parsed_data, "education")) =>
        LET schools == InstitutionLines(impl, NonEmptyLines(text_content))
        IN  \A k \in 1..Len(schools) :
                k <= MaxEducation => \E e \in 1..Len(parsed_data.education) :
                                         parsed_data.education[e].school = schools[k]


\* a skill that the vocabulary scan of a parser class finds anywhere in the text
InVocabulary(entry, skill) ==
    IF entry = "ResumeParser" THEN IsVocabularySkill(skill)
    ELSE \E v \in Range(ERP_tech_skills) : str_title(v) = skill

\* the skills of the returned record that come from a skills-section line
SectionSkills ==
    {s \in Range(parsed_data.skills)
        \cup (IF Has(parsed_data, "technical_skills")
              THEN Range(parsed_data.technical_skills) ELSE {}) :
        ~InVocabulary(impl, s)}

SkillsReturned ==
    impl \in {"ResumeParser", "EnhancedResumeParser"} /\ Returned /\ Has(parsed_data, "skills")

\* C25: every skill token taken from a skills-section line has a trimmed
\* length l with 3 <= l < 24; tokens of 24 or more characters and of 2 or
\* fewer are never added.
C25_TokenLengthBelow24 ==
    SkillsReturned => \A s \in SectionSkills : 3 <= Len(s) /\ Len(s) < 24

\* C25, amended: every skill token taken from a skills-section line has a
\* trimmed length l with 3 <= l <= 24; tokens of 25 or more characters and of
\* 2 or fewer are never added.
C25_TokenLengthUpTo24 ==
    SkillsReturned => \A s \in SectionSkills : 3 <= Len(s) /\ Len(s) <= 24

\* ResumeParser has returned the skill of 24 characters and neither the one
\* of 25 nor the one of 2
C25_Witness ==
    /\ impl = "ResumeParser" /\ Returned
    /\ NonEmptyLines(text_content) = NonEmptyLines(LongSkillText)
    /\ "Requirements Engineering" \in Range(parsed_data.skills)
    /\ Len("Requirements Engineering") = 24
    /\ "Continuous Integration CI" \notin Range(parsed_data.skills)
    /\ "Qt" \notin Range(parsed_data.skills)


\* C26: the record parse_linkedin_text returns has at most 5 experience
\* entries and at most 3 education entries.
C26_LinkedinCaps ==
    (impl = "parse_linkedin_text" /\ Returned) =>
        /\ Len(parsed_data.experience) <= 5
        /\ Len(parsed_data.education) <= 3


\* the requests of a client admitted at a time t with start <= t < start + window_seconds
AdmittedWithin(client_ip, start) ==
    {k \in 1..Len(admitted[client_ip]) :
        start <= admitted[client_ip][k] /\ admitted[client_ip][k] < start + window_seconds}

\* C27: for each client address the number of admitted requests whose
\* timestamps lie within any one window of window_seconds is at most
\* max_requests, and the times recorded for a client are times of admitted
\* requests of that client: a rejected request and a request of another
\* client leave no record.
C27_AdmissionBound ==
    \A client_ip \in Clients :
        /\ \A start \in 0..MaxClock :
               Cardinality(AdmittedWithin(client_ip, start)) <= max_requests
        /\ Range(rate_limits[client_ip]) \subseteq Range(admitted[client_ip])


\* another request, not yet answered, has saved its upload under the same path
SavedByAnother(r) ==
    \E q \in DOMAIN requests :
        /\ q # r /\ requests[q].file_path = requests[r].file_path
        /\ requests[q].pc \notin {"save", "done"}

\* C28: every request that saved its upload has removed the file by the time
\* its response is returned, on the success path, on every early error
\* return after the save and on the exception path: once a request is
\* answered, no file is left under its path, unless a request still running
\* has saved its own upload there.
C28_FileRemovedAtResponse ==
    \A r \in DOMAIN requests :
        (requests[r].pc = "done" /\ requests[r].file_path # "") =>
            (Has(files, requests[r].file_path) => SavedByAnother(r))


\* C29: in every record returned by ResumeParser.parse the technical skills
\* are skills: every element of technical_skills is an element of skills,
\* also after the two lists are cut to 15 and 25 entries.
C29_TechnicalSkillsAreSkills ==
    (impl = "ResumeParser" /\ Returned) =>
        Range(parsed_data.technical_skills) \subseteq Range(parsed_data.skills)


\* C30: whenever the personal record holds first_name and last_name, they
\* are the first and the last whitespace-separated token of its full_name:
\* the three name fields come from the same line.
C30_NameFieldsAgree ==
    (/\ impl \in {"parse_linkedin_text", "ResumeParser", "EnhancedResumeParser"}
     /\ Returned
     /\ Has(parsed_data.personal, "first_name") /\ Has(parsed_data.personal, "last_name")) =>
        /\ Has(parsed_data.personal, "full_name")
        /\ LET name_parts == str_words(parsed_data.personal.full_name)
           IN  /\ name_parts # <<>>
               /\ parsed_data.personal.first_name = name_parts[1]
               /\ parsed_data.personal.last_name = name_parts[Len(name_parts)]

=============================================================================
